---------------------------- MODULE Spec2Model ----------------------------
(***************************************************************************)
(* Kalorifit food_detection_bot: the product matcher                       *)
(* (core/product_catalog.py, ProductCatalog.rank_candidates) and the scan  *)
(* record store (data_logger.py, DatasetLogger.log_scan/update_feedback).  *)
(*                                                                         *)
(* Numbers.  Scores are Python floats.  The model keeps them as integers:  *)
(*   - an accumulated score is counted in millionths (1.2 is 1200000);     *)
(*   - raw_score, confidence, margins, and every value of the record       *)
(*     store are counted in ten-thousandths (0.6 is 6000), the resolution  *)
(*     round(x, 4) leaves.                                                 *)
(* Texts.  A normalized text is a sequence of words.  The words of the     *)
(* model are already in normal form and none is a substring of another, so *)
(* Python's `a in b` on the space-joined strings is "a is a contiguous     *)
(* run of the words of b".                                                 *)
(* Optional values.  None (and a missing dictionary key, which dict.get    *)
(* reads as None) is the empty set; a present value v is {v}.              *)
(***************************************************************************)
EXTENDS Integers, Sequences, FiniteSets, TLC

VARIABLES
    \* rank_candidates: one call
    evidence,      \* the keyword arguments of the call
    ranked,        \* the list it returned
    scored,        \* the product ids of `candidates`, the items its scoring loop visited
    rpc,           \* "called" before the body ran, "returned" after
    \* the record store of a DatasetLogger
    files,         \* scan_log_id -> the record file records/<id>.json
    fresh,         \* the ids uuid.uuid4() has yet to return
    logged,        \* scan_log_id -> the record log_scan returned for it, if any
    lock,          \* self._lock: the thread inside a `with self._lock:` block, if any
    \* calls made one after another
    reply,         \* the response to the last call
    retried,       \* the last request was delivered twice in a row
    firstDerived,  \* the derived fields its first delivery left
    \* calls made by concurrent threads
    tpc,           \* thread -> "idle" | "waiting" (for the lock) | "locked" | "done"
    tcall,         \* thread -> the call it makes
    tcur,          \* thread -> the record it holds inside the lock
    tres,          \* thread -> the response to its call
    \* _normalize_text: one call
    nvalue,        \* the argument of the call
    norder,        \* the order in which this process iterates PROMO_STOP_WORDS
    nresult,       \* the string it returned
    npc,           \* "called" before the body ran, "returned" after
    \* _extract_structured_ocr_fields: one call
    xrows,         \* the text detections of the call: text and confidence
    xfields,       \* the dict it returned
    xpc,           \* "called" before the body ran, "returned" after
    \* ProductCatalog: construction from a catalog source, then one ranking
    csource,       \* what is at the catalog path
    citems,        \* self._items of the constructed catalog
    cpc            \* "new" | "loaded" | "raised" | "ranked"

rankVars == <<evidence, ranked, scored, rpc>>
storeVars == <<files, fresh, logged, lock>>
seqVars == <<reply, retried, firstDerived>>
threadVars == <<tpc, tcall, tcur, tres>>
normVars == <<nvalue, norder, nresult, npc>>
extractVars == <<xrows, xfields, xpc>>
loadVars == <<csource, citems, cpc>>
vars == <<rankVars, storeVars, seqVars, threadVars, normVars, extractVars, loadVars>>

---------------------------------------------------------------------------
(* Helpers on optional values, sequences and integers *)

None == {}
Some(v) == {v}
IsSome(o) == o # {}
The(o) == CHOOSE v \in o : TRUE

Max2(a, b) == IF a >= b THEN a ELSE b
Min2(a, b) == IF a <= b THEN a ELSE b
Abs(a) == IF a >= 0 THEN a ELSE 0 - a
MaxOf(S) == CHOOSE m \in S : \A x \in S : x <= m

RECURSIVE SumSeq(_)
SumSeq(s) == IF s = <<>> THEN 0 ELSE Head(s) + SumSeq(Tail(s))

RECURSIVE Flatten(_)
Flatten(ss) == IF ss = <<>> THEN <<>> ELSE Head(ss) \o Flatten(Tail(ss))

Range(s) == {s[i] : i \in 1..Len(s)}

\* round(n / d) for n >= 0, d > 0; the inputs of the model never land on a tie
RoundDiv(n, d) == (2 * n + d) \div (2 * d)

---------------------------------------------------------------------------
(* Text primitives of product_catalog.py on normalized word sequences *)

\* Python `p in t` on strings: the empty string is in every string
IsSub(p, t) ==
    \E i \in 0..(Len(t) - Len(p)) : \A j \in 1..Len(p) : t[i + j] = p[j]

\* set(_tokenize(t))
Tokens(t) == Range(t)

\* ' '.join(parts) of normalized parts
JoinTexts(parts) == Flatten(parts)

OverlapUnit == 12

\* one iteration of the loop of _fuzzy_overlap_score, in twelfths
PhraseOverlap(text, phrase) ==
    IF phrase = <<>> THEN 0
    ELSE IF IsSub(phrase, text) THEN OverlapUnit
    ELSE LET pt == Tokens(phrase)
             n  == Cardinality(Tokens(text) \cap pt)
         IN  IF 2 * n >= Cardinality(pt)
             THEN (OverlapUnit * n) \div Cardinality(pt)
             ELSE 0

\* the `best` that _fuzzy_overlap_score returns, in twelfths
FuzzyOverlapScore(text, phrases) ==
    MaxOf({0} \cup {PhraseOverlap(text, phrases[i]) : i \in 1..Len(phrases)})


---------------------------------------------------------------------------
(* product_catalog.py: _normalize_text on strings.  A string is the sequence *)
(* of its characters, each a one-character string.                          *)

\* PROMO_STOP_WORDS, in the order the set literal lists them
PROMO_STOP_WORDS ==
    << <<"n", "e", "w">>,
       <<"l", "i", "m", "i", "t", "e", "d">>,
       <<"e", "d", "i", "t", "i", "o", "n">>,
       <<"l", "i", "m", "i", "t", "e", "d", " ", "e", "d", "i", "t", "i", "o", "n">>,
       <<"o", "r", "i", "g", "i", "n", "a", "l", " ", "t", "a", "s", "t", "e">>,
       <<"s", "i", "n", "c", "e", " ", "1", "8", "8", "6">>,
       <<"r", "e", "c", "y", "c", "l", "e", " ", "m", "e">>,
       <<"p", "a", "n", "t">>,
       <<"d", "e", "p", "o", "s", "i", "t">>,
       <<"b", "e", "s", "t", " ", "s", "e", "r", "v", "e", "d", " ", "c", "o", "l", "d">> >>

Letters ==
    {"a", "b", "c", "d", "e", "f", "g", "h", "i", "j", "k", "l", "m",
     "n", "o", "p", "q", "r", "s", "t", "u", "v", "w", "x", "y", "z"}

Digits == {"0", "1", "2", "3", "4", "5", "6", "7", "8", "9"}

\* the characters `\w` matches, among the lower-case characters of the model
WordChars == Letters \cup Digits \cup {"_", "æ", "ø", "å"}

\* str.lower() on one character
LowerChar(c) ==
    CASE c = "N" -> "n" [] c = "C" -> "c" [] c = "O" -> "o"
      [] c = "Æ" -> "æ" [] c = "Ø" -> "ø" [] c = "Å" -> "å"
      [] OTHER -> c

\* str.strip(), and the final `.strip()`
RECURSIVE StripText(_)
StripText(s) ==
    IF s = <<>> THEN s
    ELSE IF Head(s) = " " THEN StripText(Tail(s))
    ELSE IF s[Len(s)] = " " THEN StripText(SubSeq(s, 1, Len(s) - 1))
    ELSE s

\* the chain of five str.replace calls, one character at a time
ReplaceChars(s) ==
    Flatten([i \in 1..Len(s) |->
        CASE s[i] = "æ" -> <<"a", "e">>
          [] s[i] = "ø" -> <<"o">>
          [] s[i] = "å" -> <<"a">>
          [] s[i] = "0" -> <<"o">>
          [] s[i] = "|" -> <<"l">>
          [] OTHER -> <<s[i]>>])

\* re.sub(r'[^\w\s.%]', ' ', lowered)
Clean(s) ==
    [i \in 1..Len(s) |-> IF s[i] \in WordChars \cup {" ", ".", "%"} THEN s[i] ELSE " "]

\* runs of blanks become one blank: ' '.join(cleaned.split()) and
\* re.sub(r'\s+', ' ', collapsed).strip() both are StripText of this
RECURSIVE SqueezeBlanks(_)
SqueezeBlanks(s) ==
    IF Len(s) < 2 THEN s
    ELSE IF s[1] = " " /\ s[2] = " " THEN SqueezeBlanks(Tail(s))
    ELSE <<s[1]>> \o SqueezeBlanks(Tail(s))

Collapse(s) == StripText(SqueezeBlanks(s))

\* phrase occurs in s at position i
OccursAt(s, phrase, i) ==
    /\ i + Len(phrase) - 1 <= Len(s)
    /\ \A j \in 1..Len(phrase) : s[i + j - 1] = phrase[j]

\* str.replace(phrase, ' '): the occurrences from the left, none overlapping
RECURSIVE ReplacePhrase(_, _)
ReplacePhrase(s, phrase) ==
    IF s = <<>> THEN s
    ELSE IF OccursAt(s, phrase, 1)
    THEN <<" ">> \o ReplacePhrase(SubSeq(s, Len(phrase) + 1, Len(s)), phrase)
    ELSE <<s[1]>> \o ReplacePhrase(Tail(s), phrase)

\* `for phrase in PROMO_STOP_WORDS: collapsed = collapsed.replace(phrase, ' ')`
\* with the phrases in the order the set yields them
RECURSIVE RemoveStopWords(_, _)
RemoveStopWords(s, order) ==
    IF order = <<>> THEN s
    ELSE RemoveStopWords(ReplacePhrase(s, Head(order)), Tail(order))

\* the '1' at position i is matched by r'\b([a-z]{2,})1\b': a word boundary
\* follows it, and the letters before it, two at least, start at a word boundary
EndsLetterWord(s, i) ==
    /\ s[i] = "1"
    /\ i = Len(s) \/ s[i + 1] \notin WordChars
    /\ \E j \in 1..(i - 2) :
          /\ \A k \in j..(i - 1) : s[k] \in Letters
          /\ j = 1 \/ s[j - 1] \notin WordChars

\* re.sub(r'\b([a-z]{2,})1\b', r'\1l', collapsed)
FixTrailingOne(s) ==
    [i \in 1..Len(s) |-> IF EndsLetterWord(s, i) THEN "l" ELSE s[i]]

\* _normalize_text(value), with the stop phrases removed in the given order
NormalizeText(value, order) ==
    LET stripped == StripText(value)
        lowered == ReplaceChars([i \in 1..Len(stripped) |-> LowerChar(stripped[i])])
        collapsed == Collapse(Clean(lowered))
    IN  Collapse(FixTrailingOne(RemoveStopWords(collapsed, order)))

\* the reverse of a sequence
Reverse(s) == [i \in 1..Len(s) |-> s[Len(s) + 1 - i]]

\* the sequence from its k-th element on, followed by the elements before it
Rotate(s, k) == SubSeq(s, k, Len(s)) \o SubSeq(s, 1, k - 1)

\* iteration orders of the set PROMO_STOP_WORDS: the order of a set of strings
\* changes with the hash seed of the process
StopOrders ==
    {PROMO_STOP_WORDS, Reverse(PROMO_STOP_WORDS),
     Rotate(PROMO_STOP_WORDS, 5), Reverse(Rotate(PROMO_STOP_WORDS, 5))}

\* the strings the model normalizes: up to MaxPieces pieces, one after another
MaxPieces == 3

Pieces ==
    { <<" ">>,
      <<"N", "e", "w", " ">>,
      <<"o", "r", "i", "g", "i", "n", "a", "l", " ">>,
      <<"o", "r", "i", "g", "i", "n", "a", "1", " ">>,
      <<"t", "a", "s", "t", "e">>,
      <<"l", "i", "m", "i", "t", "e">>,
      <<"d", "e", "p", "o", "s", "i", "t">>,
      <<"c", "o", "c", "a", "-", "c", "o", "l", "a">>,
      <<"c", "0", "l", "a", " ", "1">>,
      <<"s", "m", "ø", "r", "%">> }

RECURSIVE PieceTexts(_)
PieceTexts(n) ==
    IF n = 0 THEN { <<>> }
    ELSE LET shorter == PieceTexts(n - 1)
         IN  shorter \cup {t \o q : t \in shorter, q \in Pieces}

Values == PieceTexts(MaxPieces)

---------------------------------------------------------------------------
(* main.py: _clean_ocr_text and _extract_structured_ocr_fields.  A string is *)
(* the sequence of its characters; a decimal number is its whole part and    *)
(* the digits of its fraction.                                               *)

\* the stop phrases of _clean_ocr_text, in the order of its tuple
OCR_STOP_PHRASES ==
    << <<"n", "e", "w">>,
       <<"l", "i", "m", "i", "t", "e", "d", " ", "e", "d", "i", "t", "i", "o", "n">>,
       <<"l", "i", "m", "i", "t", "e", "d">>,
       <<"e", "d", "i", "t", "i", "o", "n">>,
       <<"s", "i", "n", "c", "e", " ", "1", "8", "8", "6">>,
       <<"r", "e", "c", "y", "c", "l", "e", " ", "m", "e">> >>

\* re.sub(r'[^\w\s\-%\.]', ' ', lowered)
CleanOcr(s) ==
    [i \in 1..Len(s) |-> IF s[i] \in WordChars \cup {" ", "-", "%", "."} THEN s[i] ELSE " "]

\* _clean_ocr_text(value)
CleanOcrText(value) ==
    LET stripped == StripText(value)
        lowered == ReplaceChars([i \in 1..Len(stripped) |-> LowerChar(stripped[i])])
        normalized == Collapse(CleanOcr(lowered))
    IN  Collapse(RemoveStopWords(normalized, OCR_STOP_PHRASES))

\* ' '.join(parts)
RECURSIVE JoinBlank(_)
JoinBlank(parts) ==
    IF parts = <<>> THEN <<>>
    ELSE IF Len(parts) = 1 THEN parts[1]
    ELSE parts[1] \o <<" ">> \o JoinBlank(Tail(parts))

\* `hint in blob`
Contains(blob, hint) == \E i \in 1..Len(blob) : OccursAt(blob, hint, i)

\* the number of characters from position i on that are all digits / blanks
DigitRun(s, i) ==
    Cardinality({k \in 1..(Len(s) - i + 1) : \A j \in 0..(k - 1) : s[i + j] \in Digits})

BlankRun(s, i) ==
    Cardinality({k \in 1..(Len(s) - i + 1) : \A j \in 0..(k - 1) : s[i + j] = " "})

\* the position after the match of r'\d+(?:[.,]\d+)?' that starts at i: the
\* run of digits and, when a '.' or ',' and a digit follow it, the fraction
NumberEnd(s, i) ==
    LET j == i + DigitRun(s, i)
    IN  IF j < Len(s) /\ s[j] \in {".", ","} /\ DigitRun(s, j + 1) > 0
        THEN j + 1 + DigitRun(s, j + 1)
        ELSE j

\* r'\b' after a word character that ends at position p - 1
WordEnds(s, p) == p > Len(s) \/ s[p] \notin WordChars

\* the alternative of r'(ml|l)\b' that matches at position p, "" if none does
VolumeUnitAt(s, p) ==
    IF OccursAt(s, <<"m", "l">>, p) /\ WordEnds(s, p + 2) THEN "ml"
    ELSE IF p <= Len(s) /\ s[p] = "l" /\ WordEnds(s, p + 1) THEN "l"
    ELSE ""

\* where the unit or word after the number that starts at i begins
AfterNumber(s, i) == NumberEnd(s, i) + BlankRun(s, NumberEnd(s, i))

\* r'(\d+(?:[.,]\d+)?)\s*(ml|l)\b' matches from position i
VolumeMatchAt(s, i) == DigitRun(s, i) > 0 /\ VolumeUnitAt(s, AfterNumber(s, i)) # ""

\* r'(\d+(?:[.,]\d+)?)\s*%' matches from position i
AbvMatchAt(s, i) ==
    DigitRun(s, i) > 0 /\ AfterNumber(s, i) <= Len(s) /\ s[AfterNumber(s, i)] = "%"

\* r'(\d{1,4})\s*kcal\b' matches from position i
KcalMatchAt(s, i) ==
    LET p == i + DigitRun(s, i) + BlankRun(s, i + DigitRun(s, i))
    IN  /\ DigitRun(s, i) \in 1..4
        /\ OccursAt(s, <<"k", "c", "a", "l">>, p)
        /\ WordEnds(s, p + 4)

\* re.search: the leftmost position a match starts at, if any
FirstMatch(s, MatchAt(_, _)) ==
    IF \E i \in 1..Len(s) : MatchAt(s, i)
    THEN Some(CHOOSE i \in 1..Len(s) : MatchAt(s, i) /\ \A j \in 1..(i - 1) : ~MatchAt(s, j))
    ELSE None

DigitValue ==
    [c \in Digits |->
        CASE c = "0" -> 0 [] c = "1" -> 1 [] c = "2" -> 2 [] c = "3" -> 3 [] c = "4" -> 4
          [] c = "5" -> 5 [] c = "6" -> 6 [] c = "7" -> 7 [] c = "8" -> 8 [] c = "9" -> 9]

\* int() of a string of digits
RECURSIVE DigitsValue(_)
DigitsValue(digits) ==
    IF digits = <<>> THEN 0
    ELSE 10 * DigitsValue(SubSeq(digits, 1, Len(digits) - 1)) + DigitValue[digits[Len(digits)]]

RECURSIVE Pow10(_)
Pow10(k) == IF k = 0 THEN 1 ELSE 10 * Pow10(k - 1)

\* group(1) of a match that starts at i, as float(group.replace(',', '.'))
\* reads it: the whole part and the digits of the fraction
NumberAt(s, i) ==
    LET n == DigitRun(s, i)
    IN  [whole |-> DigitsValue(SubSeq(s, i, i + n - 1)),
         frac |-> SubSeq(s, i + n + 1, NumberEnd(s, i) - 1)]

\* round(n / d) of Python 3 for n >= 0, d > 0: a tie goes to the even neighbour
RoundHalfEven(n, d) ==
    LET q == n \div d
        r == n % d
    IN  IF 2 * r < d THEN q
        ELSE IF 2 * r > d THEN q + 1
        ELSE IF q % 2 = 0 THEN q ELSE q + 1

\* int(round(numeric * 1000)) for 'l', int(round(numeric)) for 'ml'
VolumeMl(number, unit) ==
    LET scale == Pow10(Len(number.frac))
        units == number.whole * scale + DigitsValue(number.frac)
    IN  IF unit = "l" THEN RoundHalfEven(units * 1000, scale)
        ELSE RoundHalfEven(units, scale)

\* the hints of the flavor loop, in the order of its tuple
FLAVOR_HINTS ==
    << <<"z", "e", "r", "o">>,
       <<"m", "a", "x">>,
       <<"o", "r", "i", "g", "i", "n", "a", "l">>,
       <<"c", "o", "l", "a">>,
       <<"o", "r", "a", "n", "g", "e">>,
       <<"l", "e", "m", "o", "n">>,
       <<"l", "i", "m", "e">>,
       <<"m", "a", "n", "g", "o">>,
       <<"b", "e", "r", "r", "y">>,
       <<"v", "a", "n", "i", "l", "l", "a">> >>

\* the tokens that set sugar_free to True, and those that set it to False
SUGAR_FREE_TOKENS ==
    { <<"z", "e", "r", "o">>,
      <<"s", "u", "g", "a", "r", " ", "f", "r", "e", "e">>,
      <<"s", "u", "k", "k", "e", "r", "f", "r", "i">>,
      <<"l", "i", "g", "h", "t">>,
      <<"m", "a", "x">> }

SUGARED_TOKENS ==
    { <<"o", "r", "i", "g", "i", "n", "a", "l">>,
      <<"r", "e", "g", "u", "l", "a", "r">>,
      <<"c", "l", "a", "s", "s", "i", "c">> }

BRAND_CONFIDENCE == 6000
PRODUCT_NAME_CONFIDENCE == 5500
BRAND_WORDS == 2
PRODUCT_NAME_WORDS == 4

\* len(text.split()) of a cleaned, non-empty text
WordCount(text) == 1 + Cardinality({i \in 1..Len(text) : text[i] = " "})

\* the text of the first detection, in order, that `Fits`
FirstText(dets, Fits(_)) ==
    IF \E i \in 1..Len(dets) : Fits(dets[i])
    THEN Some(CleanOcrText(dets[CHOOSE i \in 1..Len(dets) :
                                    Fits(dets[i]) /\ \A j \in 1..(i - 1) : ~Fits(dets[j])].text))
    ELSE None

\* blob: the cleaned texts of the rows that are not empty, joined by blanks
ExtractBlob(ocr_rows) ==
    LET tokens == [i \in 1..Len(ocr_rows) |-> CleanOcrText(ocr_rows[i].text)]
    IN  JoinBlank(SelectSeq(tokens, LAMBDA token : token # <<>>))

\* _extract_structured_ocr_fields(ocr_rows, text_detections), where both lists
\* hold the same detections, as in /detect
ExtractStructuredOcrFields(ocr_rows, text_detections) ==
    LET blob == ExtractBlob(ocr_rows)
        volume_match == FirstMatch(blob, VolumeMatchAt)
        abv_match == FirstMatch(blob, AbvMatchAt)
        kcal_match == FirstMatch(blob, KcalMatchAt)
        found == SelectSeq(FLAVOR_HINTS, LAMBDA hint : Contains(blob, hint))
        BrandFits(det) ==
            /\ CleanOcrText(det.text) # <<>>
            /\ WordCount(CleanOcrText(det.text)) <= BRAND_WORDS
            /\ det.confidence >= BRAND_CONFIDENCE
        NameFits(det) ==
            /\ CleanOcrText(det.text) # <<>>
            /\ WordCount(CleanOcrText(det.text)) <= PRODUCT_NAME_WORDS
            /\ det.confidence >= PRODUCT_NAME_CONFIDENCE
    IN  [brand |-> FirstText(text_detections, BrandFits),
         product_name |-> FirstText(text_detections, NameFits),
         flavor |-> IF found = <<>> THEN None ELSE Some(JoinBlank(found)),
         volume_ml |->
            IF volume_match = None THEN None
            ELSE Some(VolumeMl(NumberAt(blob, The(volume_match)),
                               VolumeUnitAt(blob, AfterNumber(blob, The(volume_match))))),
         abv |-> IF abv_match = None THEN None ELSE Some(NumberAt(blob, The(abv_match))),
         kcal |->
            IF kcal_match = None THEN None
            ELSE Some(DigitsValue(SubSeq(blob, The(kcal_match),
                                         The(kcal_match) + DigitRun(blob, The(kcal_match)) - 1))),
         sugar_free |->
            IF \E token \in SUGAR_FREE_TOKENS : Contains(blob, token) THEN Some(TRUE)
            ELSE IF \E token \in SUGARED_TOKENS : Contains(blob, token) THEN Some(FALSE)
            ELSE None]

\* the text detections of the model: up to MaxRows of them, in any order
Detection(text, confidence) == [text |-> text, confidence |-> confidence]

MaxRows == 2

DetectionChoices ==
    { Detection(<<"1", ".", "5", " ", "l">>, 9000),
      Detection(<<"1", ",", "5", " ", "l">>, 9000),
      Detection(<<"5", "0", "0", " ", "m", "l">>, 9000),
      Detection(<<"1", "2", "5", " ", "m", "l">>, 9000),
      Detection(<<"0", ".", "5", "l">>, 9000),
      Detection(<<"C", "o", "c", "a", " ", "C", "o", "l", "a">>, 9000),
      Detection(<<"z", "e", "r", "o", " ", "s", "u", "g", "a", "r">>, 9000),
      Detection(<<"d", "i", "e", "t">>, 5800),
      Detection(<<"s", "u", "g", "a", "r">>, 5000),
      Detection(<<"c", "l", "a", "s", "s", "i", "c">>, 9000),
      Detection(<<"4", ".", "7", "%">>, 9000),
      Detection(<<"l", "i", "g", "h", "t", " ", "4", "2", " ", "k", "c", "a", "l">>, 5000),
      Detection(<<"N", "e", "w">>, 9000) }

RECURSIVE DetectionLists(_)
DetectionLists(n) ==
    IF n = 0 THEN { <<>> }
    ELSE LET shorter == DetectionLists(n - 1)
         IN  shorter \cup {Append(list, det) : list \in shorter, det \in DetectionChoices}

---------------------------------------------------------------------------
(* product_catalog.py: constants *)

\* PACKAGING_HINTS: canonical tag -> aliases
PACKAGING_HINTS ==
    [can     |-> {"can", "soda can", "tin can"},
     bottle  |-> {"bottle", "plastic bottle", "glass bottle"},
     carton  |-> {"carton", "box", "tetra pak"},
     pouch   |-> {"pouch", "bag", "sachet"},
     bowl    |-> {"bowl", "cup"},
     plate   |-> {"plate", "dish", "tray"},
     wrapper |-> {"wrapper", "wrap", "packet"}]

\* _normalize_packaging on an optional, already lower-case string
NormalizePackaging(value) ==
    IF value = None \/ value = Some("") THEN None
    ELSE LET v == The(value)
             canon == {p \in DOMAIN PACKAGING_HINTS : v = p \/ v \in PACKAGING_HINTS[p]}
         IN  IF canon # {} THEN Some(CHOOSE p \in canon : TRUE) ELSE Some(v)

\* the weights of rank_candidates, in millionths
W_BARCODE_EXACT == 1200000
W_BRAND_STRUCTURED == 550000
W_BRAND_EXACT == 420000
W_BRAND_FUZZY == 300000
W_PRODUCT_STRUCTURED == 550000
W_PRODUCT_EXACT == 500000
W_PRODUCT_FUZZY == 360000
W_ALIAS == 180000
W_FLAVOR == 180000
W_KEYWORD == 120000
W_VISUAL_BRAND_HINT == 180000
W_VISUAL_LABEL == 220000
W_PACKAGING_MATCH == 140000
W_PACKAGING_MISMATCH == 300000
W_VOLUME_MATCH == 200000
W_VOLUME_MISMATCH == 450000
W_ABV_MATCH == 150000
W_ABV_MISMATCH == 150000
W_SUGAR_MATCH == 140000
W_SUGAR_MISMATCH == 350000

VOLUME_MATCH_DELTA == 35
VOLUME_MISMATCH_DELTA == 300
\* abv is counted in tenths of a percent: 0.3 is 3
ABV_MATCH_DELTA == 3

\* score / 1.8, clamped to [0, 1], rounded to 4 decimals: millionths -> ten-thousandths
CONFIDENCE_CEILING == 1800000
\* 1.0 in ten-thousandths
One == 10000
\* round(score, 4): millionths per ten-thousandth
ScorePerUnit == 100
\* a visual hint score h (ten-thousandths) times 0.22 is 22 * h millionths
VisualPerUnit == 22

ACCEPT_CONFIDENCE == 6000
ACCEPT_MARGIN == 800

---------------------------------------------------------------------------
(* The catalog: ProductRecord rows as _load_items builds them *)

Product(id, brand, name, aliases, keywords, barcode, packaging, volume, abv, sugar) ==
    [product_id |-> id, brand |-> brand, product_name |-> name, aliases |-> aliases,
     keywords |-> keywords, barcode |-> barcode, packaging |-> packaging,
     volume_ml |-> volume, abv |-> abv, sugar_free |-> sugar]

Items ==
    << Product("coca-cola-zero-15l", <<"coca", "cola">>, <<"zero", "sugar">>,
               << <<"coke", "zero">> >>, << <<"cola">> >>,
               Some("5000112"), {"bottle"}, Some(1500), None, Some(TRUE)),
       Product("coca-cola-classic-033", <<"coca", "cola">>, <<"classic">>,
               << <<"coke">> >>, << <<"cola">> >>,
               Some("5449000"), {"can"}, Some(330), None, Some(FALSE)),
       Product("urge-05l", <<"urge">>, <<"citrus", "soda">>,
               <<>>, << <<"soda">> >>,
               None, {"bottle", "can"}, Some(500), None, Some(FALSE)),
       Product("ringnes-pilsner", <<"ringnes">>, <<"pilsner">>,
               <<>>, << <<"beer">> >>,
               None, {}, None, Some(47), None) >>

---------------------------------------------------------------------------
(* ProductCatalog.rank_candidates *)

NonEmptyTexts(texts) == SelectSeq(texts, LAMBDA t : t # <<>>)

\* ' '.join of the normalized non-empty brand, name, aliases and keywords
Searchable(item) ==
    JoinTexts(NonEmptyTexts(<<item.brand, item.product_name>> \o item.aliases \o item.keywords))

BarcodeMatches(item, ev) ==
    IsSome(ev.barcode) /\ The(ev.barcode) # "" /\ IsSome(item.barcode)
        /\ The(ev.barcode) = The(item.barcode)

OcrBlob(ev) == JoinTexts(NonEmptyTexts(ev.ocr_lines))

\* the five conditions of the prefilter loop
Prefiltered(item, ev) ==
    LET ocr_blob == OcrBlob(ev)
        visual_terms == NonEmptyTexts(ev.visual_hints)
        packaging == NormalizePackaging(ev.packaging_type)
    IN  \/ BarcodeMatches(item, ev)
        \/ /\ ocr_blob # <<>>
           /\ \/ IsSub(item.brand, ocr_blob)
              \/ \E i \in 1..Len(item.aliases) : IsSub(item.aliases[i], ocr_blob)
              \/ \E i \in 1..Len(item.keywords) : IsSub(item.keywords[i], ocr_blob)
        \/ ev.brand_hint # <<>> /\ IsSub(ev.brand_hint, Searchable(item))
        \/ \E i \in 1..Len(visual_terms) : IsSub(visual_terms[i], Searchable(item))
        \/ IsSome(packaging) /\ The(packaging) \in item.packaging

\* variant: no fallback to the whole catalog
Candidates_NoFallback(items, ev) ==
    SelectSeq(items, LAMBDA item : Prefiltered(item, ev))

\* candidates: the prefiltered items in catalog order, or the whole catalog
Candidates(items, ev) ==
    LET kept == SelectSeq(items, LAMBDA item : Prefiltered(item, ev))
    IN  IF kept = <<>> THEN items ELSE kept

\* the product ids of a list of items
ProductIds(items) == {items[i].product_id : i \in 1..Len(items)}

\* variant: a signal that fires is listed but adds nothing to the score
Sig_Unweighted(cond, delta, reason) == IF cond THEN << [d |-> 0, r |-> reason] >> ELSE <<>>

Sig(cond, delta, reason) == IF cond THEN << [d |-> delta, r |-> reason] >> ELSE <<>>

BrandSignals(item, ev) ==
    LET ocr_blob == OcrBlob(ev)
        observed_brand == ev.structured_fields.brand
        fuzzy == FuzzyOverlapScore(ocr_blob, <<item.brand>> \o item.aliases)
    IN  IF observed_brand # <<>> /\ item.brand # <<>> /\ observed_brand = item.brand
        THEN Sig(TRUE, W_BRAND_STRUCTURED, "brand_structured_exact")
        ELSE IF item.brand # <<>> /\ IsSub(item.brand, ocr_blob)
        THEN Sig(TRUE, W_BRAND_EXACT, "brand_exact")
        ELSE Sig(fuzzy > 0, (W_BRAND_FUZZY * fuzzy) \div OverlapUnit, "brand_fuzzy")

ProductSignals(item, ev) ==
    LET ocr_blob == OcrBlob(ev)
        observed_product == ev.structured_fields.product_name
        exact_name_score == FuzzyOverlapScore(ocr_blob, <<item.product_name>>)
        alias_score == FuzzyOverlapScore(ocr_blob, item.aliases)
        name_fuzzy == FuzzyOverlapScore(ocr_blob, <<item.product_name>> \o item.aliases)
    IN  IF observed_product # <<>> /\ observed_product = item.product_name
        THEN Sig(TRUE, W_PRODUCT_STRUCTURED, "product_structured_exact")
        ELSE (IF exact_name_score >= OverlapUnit
              THEN Sig(TRUE, W_PRODUCT_EXACT, "product_exact")
              ELSE Sig(name_fuzzy > 0, (W_PRODUCT_FUZZY * name_fuzzy) \div OverlapUnit,
                       "product_fuzzy"))
             \o Sig(alias_score > 0, (W_ALIAS * alias_score) \div OverlapUnit, "alias_match")

FlavorSignals(item, ev) ==
    LET observed_flavor == ev.structured_fields.flavor
        fuzzy == FuzzyOverlapScore(observed_flavor,
                     <<item.product_name>> \o item.aliases \o item.keywords)
    IN  Sig(observed_flavor # <<>> /\ fuzzy > 0, (W_FLAVOR * fuzzy) \div OverlapUnit,
            "flavor_match")

KeywordSignals(item, ev) ==
    LET fuzzy == FuzzyOverlapScore(OcrBlob(ev), item.keywords)
    IN  Sig(fuzzy > 0, (W_KEYWORD * fuzzy) \div OverlapUnit, "keyword_match")

\* label_visual_score: the best hint score among the labels found in the item
LabelVisualScore(item, ev) ==
    MaxOf({0} \cup
          {e.score : e \in {x \in ev.visual_score_by_label :
               /\ x.label # <<>>
               /\ \/ IsSub(x.label, item.brand)
                  \/ IsSub(x.label, item.product_name)
                  \/ \E i \in 1..Len(item.aliases) : IsSub(x.label, item.aliases[i])}})

VisualSignals(item, ev) ==
    LET lvs == LabelVisualScore(item, ev)
    IN  Sig(ev.brand_hint # <<>> /\ ev.brand_hint = item.brand,
            W_VISUAL_BRAND_HINT, "visual_brand_hint")
        \o Sig(lvs > 0, Min2(W_VISUAL_LABEL, lvs * VisualPerUnit), "visual_label_match")

PackagingSignals(item, ev) ==
    LET packaging == NormalizePackaging(ev.packaging_type)
    IN  IF IsSome(packaging) /\ item.packaging # {}
        THEN IF The(packaging) \in item.packaging
             THEN Sig(TRUE, W_PACKAGING_MATCH, "packaging_match")
             ELSE Sig(TRUE, 0 - W_PACKAGING_MISMATCH, "packaging_mismatch")
        ELSE <<>>

\* variant: every difference above the match threshold is a mismatch
VolumeSignals_NoDeadBand(item, ev) ==
    LET observed == ev.structured_fields.volume_ml
    IN  IF IsSome(observed) /\ The(observed) # 0
           /\ IsSome(item.volume_ml) /\ The(item.volume_ml) # 0
        THEN LET delta == Abs(The(observed) - The(item.volume_ml))
             IN  IF delta <= VOLUME_MATCH_DELTA
                 THEN Sig(TRUE, W_VOLUME_MATCH, "volume_match")
                 ELSE Sig(TRUE, 0 - W_VOLUME_MISMATCH, "volume_mismatch")
        ELSE <<>>

VolumeSignals(item, ev) ==
    LET observed == ev.structured_fields.volume_ml
    IN  IF IsSome(observed) /\ The(observed) # 0
           /\ IsSome(item.volume_ml) /\ The(item.volume_ml) # 0
        THEN LET delta == Abs(The(observed) - The(item.volume_ml))
             IN  IF delta <= VOLUME_MATCH_DELTA
                 THEN Sig(TRUE, W_VOLUME_MATCH, "volume_match")
                 ELSE Sig(delta >= VOLUME_MISMATCH_DELTA, 0 - W_VOLUME_MISMATCH,
                          "volume_mismatch")
        ELSE <<>>

AbvSignals(item, ev) ==
    LET observed == ev.structured_fields.abv
    IN  IF IsSome(observed) /\ IsSome(item.abv)
        THEN IF Abs(The(observed) - The(item.abv)) <= ABV_MATCH_DELTA
             THEN Sig(TRUE, W_ABV_MATCH, "abv_match")
             ELSE Sig(TRUE, 0 - W_ABV_MISMATCH, "abv_mismatch")
        ELSE <<>>

SugarSignals(item, ev) ==
    LET observed == ev.structured_fields.sugar_free
    IN  IF IsSome(observed) /\ IsSome(item.sugar_free)
        THEN IF The(observed) = The(item.sugar_free)
             THEN Sig(TRUE, W_SUGAR_MATCH, "sugar_match")
             ELSE Sig(TRUE, 0 - W_SUGAR_MISMATCH, "sugar_mismatch")
        ELSE <<>>

\* the contributions of one candidate, in the order the loop body adds them
Signals(item, ev) ==
    Sig(BarcodeMatches(item, ev), W_BARCODE_EXACT, "barcode_exact")
    \o BrandSignals(item, ev)
    \o ProductSignals(item, ev)
    \o FlavorSignals(item, ev)
    \o KeywordSignals(item, ev)
    \o VisualSignals(item, ev)
    \o PackagingSignals(item, ev)
    \o VolumeSignals(item, ev)
    \o AbvSignals(item, ev)
    \o SugarSignals(item, ev)


\* `score` after the loop body, in millionths
Score(item, ev) ==
    LET sigs == Signals(item, ev)
    IN  SumSeq([i \in 1..Len(sigs) |-> sigs[i].d])

Reasons(item, ev) ==
    LET sigs == Signals(item, ev)
    IN  [i \in 1..Len(sigs) |-> sigs[i].r]

\* variant: the quotient rounded without the clamp to [0, 1]
Confidence_Unclamped(score) == RoundDiv(score, CONFIDENCE_CEILING \div One)

\* round(min(1.0, max(0.0, score / 1.8)), 4), in ten-thousandths
Confidence(score) ==
    RoundDiv(Min2(CONFIDENCE_CEILING, Max2(0, score)), CONFIDENCE_CEILING \div One)

\* round(score, 4), in ten-thousandths (only positive scores are kept)
RawScore(score) == RoundDiv(score, ScorePerUnit)

\* `if score <= 0: continue`
Kept(score) == score > 0

\* the dict appended to `ranked` for one candidate
Row(item, ev) ==
    LET score == Score(item, ev)
    IN  [product_id |-> item.product_id,
         brand      |-> item.brand,
         confidence |-> Confidence(score),
         raw_score  |-> RawScore(score),
         score      |-> score,
         reasons    |-> Reasons(item, ev),
         barcode    |-> item.barcode,
         volume_ml  |-> item.volume_ml]

ScoredRows(items, ev) ==
    LET cands == Candidates(items, ev)
        rows  == [i \in 1..Len(cands) |-> Row(cands[i], ev)]
    IN  SelectSeq(rows, LAMBDA row : Kept(row.score))

\* variant: a sort key of raw_score alone
KeyGE_RawScoreOnly(a, b) == a.raw_score >= b.raw_score

\* the sort key (raw_score, confidence), compared as Python compares tuples
KeyGE(a, b) ==
    \/ a.raw_score > b.raw_score
    \/ a.raw_score = b.raw_score /\ a.confidence >= b.confidence

\* list.sort(key=..., reverse=True) is stable: equal keys keep their order
InsertRow(x, s) ==
    LET n == Cardinality({i \in 1..Len(s) : KeyGE(s[i], x)})
    IN  SubSeq(s, 1, n) \o <<x>> \o SubSeq(s, n + 1, Len(s))

RECURSIVE SortRanked(_)
SortRanked(rows) ==
    IF rows = <<>> THEN <<>>
    ELSE InsertRow(rows[Len(rows)], SortRanked(SubSeq(rows, 1, Len(rows) - 1)))

\* ranked[: max(1, top_k)]
TopRows(rows, top_k) == SubSeq(rows, 1, Min2(Len(rows), Max2(1, top_k)))

\* margin = round(top_score - second_score, 4); second_score is 0.0 for a single row
TopMargin(top) ==
    top[1].raw_score - (IF Len(top) > 1 THEN top[2].raw_score ELSE 0)

\* variant: no margin at the last position
MarginToNext_ZeroAtLast(top, i) ==
    IF i < Len(top) THEN top[i].raw_score - top[i + 1].raw_score ELSE 0

\* row['score_margin_to_next'] at 1-based position i
MarginToNext(top, i) ==
    IF i = 1 THEN TopMargin(top)
    ELSE IF i < Len(top) THEN top[i].raw_score - top[i + 1].raw_score
    ELSE top[i].raw_score

\* variant: acceptance on the confidence of rank 1 alone
Accepted_NoMargin(top, i) == i = 1 /\ top[i].confidence >= ACCEPT_CONFIDENCE

\* row['accepted'] at 1-based position i
Accepted(top, i) ==
    i = 1 /\ top[i].confidence >= ACCEPT_CONFIDENCE /\ TopMargin(top) >= ACCEPT_MARGIN

Finish(top) ==
    [i \in 1..Len(top) |->
        [product_id |-> top[i].product_id,
         brand      |-> top[i].brand,
         confidence |-> top[i].confidence,
         raw_score  |-> top[i].raw_score,
         score      |-> top[i].score,
         reasons    |-> top[i].reasons,
         barcode    |-> top[i].barcode,
         volume_ml  |-> top[i].volume_ml,
         rank       |-> i,
         score_margin_to_next |-> MarginToNext(top, i),
         accepted   |-> Accepted(top, i)]]

\* the list rank_candidates returns
RankCandidates(items, ev) ==
    IF items = <<>> THEN <<>>
    ELSE Finish(TopRows(SortRanked(ScoredRows(items, ev)), ev.top_k))

---------------------------------------------------------------------------
(* The calls of rank_candidates the model makes *)

MaxTopK == 3

OcrChoices ==
    { <<>>,
      << <<"urge">>, <<"citrus", "soda">> >>,
      << <<"coca", "cola">>, <<"zero", "sugar">> >>,
      << <<"coke">>, <<"pilsner", "beer">> >> }

BarcodeChoices == {None, Some("5449000"), Some("7000000")}

PackagingChoices == {None, Some("soda can"), Some("bottle")}

VisualHintChoices == { <<>>, << <<"urge">> >> }

BrandHintChoices == { <<>>, <<"urge">> }

VisualScoreChoices ==
    { {},
      {[label |-> <<"urge">>, score |-> 5003], [label |-> <<"pilsner">>, score |-> 5004]},
      {[label |-> <<"coca", "cola">>, score |-> 8000]},
      {[label |-> <<"coke">>, score |-> 12000], [label |-> <<"ringnes">>, score |-> 5000]} }

Fields(brand, name, flavor, volume, abv, sugar) ==
    [brand |-> brand, product_name |-> name, flavor |-> flavor,
     volume_ml |-> volume, abv |-> abv, sugar_free |-> sugar]

FieldChoices ==
    { Fields(<<>>, <<>>, <<>>, None, None, None),
      Fields(<<"coca", "cola">>, <<"zero", "sugar">>, <<>>, Some(1500), None, Some(TRUE)),
      Fields(<<"coca", "cola">>, <<"classic">>, <<>>, Some(330), None, Some(FALSE)),
      Fields(<<>>, <<>>, <<"citrus">>, Some(330), Some(47), Some(TRUE)),
      Fields(<<"ringnes">>, <<"pilsner">>, <<>>, Some(600), Some(55), None),
      Fields(<<>>, <<"citrus", "soda">>, <<"cola">>, Some(0), Some(45), Some(FALSE)),
      Fields(<<"coca", "cola">>, <<>>, <<>>, Some(365), None, None),
      Fields(<<"urge">>, <<>>, <<>>, Some(800), None, None) }

Evidences ==
    [ocr_lines : OcrChoices, barcode : BarcodeChoices, top_k : 0..MaxTopK,
     packaging_type : PackagingChoices, visual_hints : VisualHintChoices,
     brand_hint : BrandHintChoices, structured_fields : FieldChoices,
     visual_score_by_label : VisualScoreChoices]

---------------------------------------------------------------------------
(* data_logger.py: coercions.  Numbers of the record store are counted in   *)
(* ten-thousandths, except character and item counts, which are integers.  *)

\* Python `a or b` on optional numbers: None and 0 are falsy
OrElseNum(a, b) == IF a = None \/ a = Some(0) THEN b ELSE a

\* Python `a or b` on optional strings: None and '' are falsy
OrElseStr(a, b) == IF a = None \/ a = Some("") THEN b ELSE a

\* str.strip() on the strings of the model
StripTable ==
    [x \in {" banana ", " blurry ", " bottle "} |->
        CASE x = " banana " -> "banana"
          [] x = " blurry " -> "blurry"
          [] x = " bottle " -> "bottle"]

Strip(x) == IF x \in DOMAIN StripTable THEN StripTable[x] ELSE x

\* str.lower() on the strings of the model
LowerTable ==
    [x \in {"Urge", "URGE", "Coca Cola Zero Sugar"} |->
        CASE x = "Urge" -> "urge"
          [] x = "URGE" -> "urge"
          [] x = "Coca Cola Zero Sugar" -> "coca cola zero sugar"]

Lower(x) == IF x \in DOMAIN LowerTable THEN LowerTable[x] ELSE x

\* _as_str: stripped text, None when empty
AsStr(o) == IF o = None THEN None
            ELSE IF Strip(The(o)) = "" THEN None ELSE Some(Strip(The(o)))

\* `text.strip() or None`
StripOrNone(x) == IF Strip(x) = "" THEN None ELSE Some(Strip(x))

---------------------------------------------------------------------------
(* data_logger.py: the feedback context *)

\* the keys of _normalize_feedback_context that the derivations read, and one
\* (scanSessionId) of the keys they do not
ContextKeys ==
    {"packagingType", "selectedFrameSharpness", "selectedFrameGlare",
     "selectedFrameBrightness", "selectedFrameQuality", "frontVisibilityScore",
     "ocrTextCharCount", "ocrBestLineScore", "topMatchMargin",
     "shouldPromptRetake", "scanSessionId"}

ContextStrKeys == {"packagingType", "scanSessionId"}

\* dict.get on a payload dictionary (a function from its keys to optional values)
Get(d, k) == IF k \in DOMAIN d THEN d[k] ELSE None

\* _normalize_feedback_context: the known keys only, strings stripped
NormalizeFeedbackContext(fc) ==
    [k \in ContextKeys |->
        IF k \in ContextStrKeys THEN AsStr(Get(fc, k)) ELSE Get(fc, k)]

\* `current.get('feedback_context') if isinstance(..., dict) else {}`
ContextOf(current) ==
    IF IsSome(current.feedback_context) THEN The(current.feedback_context)
    ELSE [k \in {} |-> None]

---------------------------------------------------------------------------
(* data_logger.py: derived fields *)

BLUR_SHARPNESS == 2800
GLARE_LIMIT == 6200
LOW_LIGHT_BRIGHTNESS == 3000
LABEL_VISIBILITY == 4600
WEAK_OCR_CHARS == 8
WEAK_OCR_SCORE == 5500
AMBIGUOUS_MARGIN == 800
LOW_BUCKET_ISSUES == 3
AL_LOW_CONFIDENCE == 7200
AL_MARGIN == 1000

PackagedTypes == {"can", "bottle", "carton", "wrapper", "pouch"}

\* `current.get('analysis') if isinstance(..., dict) else {}`
AnalysisOf(current) ==
    IF IsSome(current.analysis) THEN The(current.analysis)
    ELSE [k \in {} |-> None]

\* optional number o is present and below / above the limit
Below(o, limit) == IsSome(o) /\ The(o) < limit
Above(o, limit) == IsSome(o) /\ The(o) > limit

\* variant: the low bucket only from four issues on
QualityBucket_FourIssues(issue_count, bad_photo) ==
    IF issue_count > LOW_BUCKET_ISSUES \/ bad_photo = Some(TRUE) THEN "low"
    ELSE IF issue_count >= 1 THEN "medium"
    ELSE "high"

\* quality_bucket: 'high', unless `issue_count >= 3 or bad_photo is True` ('low')
\* or else `issue_count >= 1` ('medium')
QualityBucket(issue_count, bad_photo) ==
    IF issue_count >= LOW_BUCKET_ISSUES \/ bad_photo = Some(TRUE) THEN "low"
    ELSE IF issue_count >= 1 THEN "medium"
    ELSE "high"

\* _derive_data_quality(current, feedback_context)
DeriveDataQuality(current, fc) ==
    LET analysis == AnalysisOf(current)
        packaging_type == OrElseStr(AsStr(Get(fc, "packagingType")),
                                    AsStr(Get(analysis, "packaging_type")))
        frame_sharpness == Get(fc, "selectedFrameSharpness")
        frame_glare == Get(fc, "selectedFrameGlare")
        frame_brightness == Get(fc, "selectedFrameBrightness")
        front_visibility == Get(fc, "frontVisibilityScore")
        ocr_chars == Get(fc, "ocrTextCharCount")
        ocr_score == Get(fc, "ocrBestLineScore")
        top_match_margin == OrElseNum(Get(fc, "topMatchMargin"),
                                      Get(analysis, "top_match_margin"))
        packaged == IsSome(packaging_type) /\ The(packaging_type) \in PackagedTypes
        flags ==
            [blur |-> Below(frame_sharpness, BLUR_SHARPNESS),
             glare |-> Above(frame_glare, GLARE_LIMIT),
             low_light |-> Below(frame_brightness, LOW_LIGHT_BRIGHTNESS),
             low_label_visibility |-> packaged /\ Below(front_visibility, LABEL_VISIBILITY),
             weak_ocr |-> Below(ocr_chars, WEAK_OCR_CHARS) \/ Below(ocr_score, WEAK_OCR_SCORE),
             ambiguous_match |-> Below(top_match_margin, AMBIGUOUS_MARGIN)]
        issue_count == Cardinality({f \in DOMAIN flags : flags[f]})
    IN  [packaging_type |-> packaging_type,
         frame_quality |-> Get(fc, "selectedFrameQuality"),
         frame_sharpness |-> frame_sharpness,
         frame_glare |-> frame_glare,
         frame_brightness |-> frame_brightness,
         front_visibility_score |-> front_visibility,
         ocr_text_char_count |-> ocr_chars,
         ocr_best_line_score |-> ocr_score,
         top_match_margin |-> top_match_margin,
         condition_flags |-> flags,
         quality_bucket |-> QualityBucket(issue_count, current.bad_photo)]

\* the price and promotion tokens _derive_failure_tags looks for in the OCR text
ShelfTokens == {" kr", "nok", "tilbud", "save", "%", "2 for", "3 for"}

\* flags.get(name) on the condition flags of the record's data_quality
FlagOf(current, name) ==
    IsSome(current.data_quality) /\ The(current.data_quality).condition_flags[name]

\* _derive_failure_tags(current); the sorted list of a set is modelled as the set
DeriveFailureTags(current) ==
    LET fc == ContextOf(current)
        predicted_product == AsStr(current.predicted_product)
        corrected_to == AsStr(current.user_corrected_to)
        Tag(cond, tag) == IF cond THEN {tag} ELSE {}
    IN  Tag(current.not_food = Some(TRUE), "hard_negative_non_food")
        \cup Tag(current.bad_photo = Some(TRUE), "bad_photo")
        \cup Tag(/\ IsSome(predicted_product) /\ IsSome(corrected_to)
                 /\ Lower(The(predicted_product)) # Lower(The(corrected_to)),
                 "wrong_product_match")
        \cup Tag(/\ current.user_confirmed = Some(FALSE) /\ corrected_to = None
                 /\ current.not_food # Some(TRUE),
                 "unresolved_prediction")
        \cup Tag(Get(fc, "shouldPromptRetake") = Some(TRUE), "quality_gate_triggered")
        \cup Tag(FlagOf(current, "blur"), "motion_or_focus_blur")
        \cup Tag(FlagOf(current, "glare"), "specular_glare")
        \cup Tag(FlagOf(current, "low_light"), "low_light")
        \cup Tag(FlagOf(current, "low_label_visibility"), "low_label_visibility")
        \cup Tag(FlagOf(current, "weak_ocr"), "weak_ocr")
        \cup Tag(FlagOf(current, "ambiguous_match"), "close_tie")
        \cup Tag(Above(Get(AnalysisOf(current), "non_food_filtered_count"), 0),
                 "non_food_confuser_seen")
        \cup Tag(IsSome(current.ocr_output) /\ The(current.ocr_output) \cap ShelfTokens # {},
                 "shelf_tag_noise")

\* variant: any failure tag makes the record a high priority
TrainingPriority_AnyTagHigh(failure_tags) ==
    IF failure_tags # {} THEN "high" ELSE "low"

\* the conditional expression that sets training_priority
TrainingPriority(failure_tags) ==
    IF failure_tags \cap {"hard_negative_non_food", "wrong_product_match"} # {} THEN "high"
    ELSE IF failure_tags # {} THEN "medium"
    ELSE "low"

\* the substrings _derive_domain_key looks for, per modelled part of a device string
PartMarkers ==
    [x \in {"iphone", "win32", "macintel", "linux armv8l",
            "ua safari iphone", "ua chrome windows", "ua firefox linux", "ua edg windows"} |->
        CASE x = "iphone" -> {"iphone"}
          [] x = "win32" -> {"win"}
          [] x = "macintel" -> {"mac"}
          [] x = "linux armv8l" -> {}
          [] x = "ua safari iphone" -> {"iphone", "safari"}
          [] x = "ua chrome windows" -> {"chrome", "safari", "win"}
          [] x = "ua firefox linux" -> {"firefox"}
          [] x = "ua edg windows" -> {"chrome", "safari", "edg", "win"}]

\* Python `marker in part`
HasMarker(marker, part) == part \in DOMAIN PartMarkers /\ marker \in PartMarkers[part]

\* _derive_domain_key(current); device_info is the list of its non-empty
\* lower-case parts between '|'
DeriveDomainKey(current) ==
    LET context == IF IsSome(current.context) THEN The(current.context)
                   ELSE [k \in {} |-> None]
        scan_mode == IF IsSome(AsStr(Get(context, "scan_mode")))
                     THEN The(AsStr(Get(context, "scan_mode"))) ELSE "unknown"
        parts == IF IsSome(Get(context, "device_info"))
                 THEN The(Get(context, "device_info")) ELSE <<"unknown">>
        first == IF Len(parts) > 0 THEN parts[1] ELSE "unknown"
        agent == IF Len(parts) > 1 THEN parts[2] ELSE ""
        platform ==
            IF HasMarker("iphone", agent) \/ HasMarker("ios", agent) THEN "ios"
            ELSE IF HasMarker("android", agent) THEN "android"
            ELSE IF HasMarker("win", first) THEN "windows"
            ELSE IF HasMarker("mac", first) THEN "mac"
            ELSE first
        browser ==
            IF HasMarker("chrome", agent) \/ HasMarker("crios", agent) THEN "chrome"
            ELSE IF HasMarker("safari", agent) THEN "safari"
            ELSE IF HasMarker("firefox", agent) THEN "firefox"
            ELSE IF HasMarker("edg", agent) THEN "edge"
            ELSE "unknown"
    IN  <<scan_mode, platform, browser>>

AL_W_LOW_CONFIDENCE == 3
AL_W_DISAGREEMENT == 3
AL_W_OPEN_SET == 2
AL_W_USER_DISAGREED == 4
AL_W_POOR_CAPTURE == 2
AL_W_HARD_NEGATIVE == 5
AL_W_WRONG_PRODUCT == 5
AL_W_REGION_NOISE == 2

\* _derive_active_learning(current)
DeriveActiveLearning(current) ==
    LET analysis == AnalysisOf(current)
        failure_tags == IF IsSome(current.failure_tags) THEN The(current.failure_tags) ELSE {}
        top_conf == Get(analysis, "top_match_confidence")
        top_margin == Get(analysis, "top_match_margin")
        quality_bucket == IF IsSome(current.data_quality)
                          THEN Some(The(current.data_quality).quality_bucket) ELSE None
        hits ==
            Sig(top_conf = None \/ Below(top_conf, AL_LOW_CONFIDENCE),
                AL_W_LOW_CONFIDENCE, "low_confidence")
            \o Sig(top_margin = None \/ Below(top_margin, AL_MARGIN),
                   AL_W_DISAGREEMENT, "candidate_disagreement")
            \o Sig(AsStr(current.predicted_product) = None, AL_W_OPEN_SET, "open_set_or_unknown")
            \o Sig(\/ current.user_confirmed = Some(FALSE)
                   \/ IsSome(current.user_corrected_to) /\ current.user_corrected_to # Some("")
                   \/ current.not_food = Some(TRUE),
                   AL_W_USER_DISAGREED, "user_disagreed")
            \o Sig(quality_bucket = Some("low"), AL_W_POOR_CAPTURE, "poor_capture_quality")
            \o Sig("hard_negative_non_food" \in failure_tags, AL_W_HARD_NEGATIVE,
                   "hard_negative_non_food")
            \o Sig("wrong_product_match" \in failure_tags, AL_W_WRONG_PRODUCT,
                   "wrong_product_match")
            \o Sig("shelf_tag_noise" \in failure_tags, AL_W_REGION_NOISE, "ignore_region_noise")
    IN  [candidate |-> hits # <<>>,
         score |-> SumSeq([i \in 1..Len(hits) |-> hits[i].d]),
         reasons |-> [i \in 1..Len(hits) |-> hits[i].r],
         domain_key |-> DeriveDomainKey(current)]


---------------------------------------------------------------------------
(* data_logger.py: the record, log_scan and update_feedback *)

RecordKeys ==
    {"scan_log_id", "image_path", "predictions", "ocr_output", "barcode",
     "predicted_product", "predicted_candidates", "analysis",
     "final_predicted_product", "user_confirmed", "user_corrected_to", "not_food",
     "bad_photo", "feedback_notes", "created_at", "updated_at", "request_id",
     "model", "latency_ms", "context", "active_learning", "feedback_context",
     "user_accepted_product", "data_quality", "failure_tags", "training_priority"}

\* json.loads of an empty document: `{}`, where every dict.get reads None
EmptyRecord == [k \in RecordKeys |-> None]

\* the keys log_scan writes and update_feedback never assigns
SnapshotKeys ==
    {"scan_log_id", "image_path", "predictions", "ocr_output", "barcode",
     "predicted_product", "predicted_candidates", "analysis",
     "final_predicted_product", "created_at", "request_id", "model", "latency_ms",
     "context"}

FeedbackKeys ==
    {"user_confirmed", "user_corrected_to", "not_food", "bad_photo",
     "feedback_notes", "feedback_context"}

DerivedKeys == {"data_quality", "failure_tags", "training_priority", "active_learning"}

\* _serialize_analysis: {} when the argument is no dict
SerializeAnalysis(analysis) ==
    IF analysis = None THEN [k \in {} |-> None]
    ELSE LET a == The(analysis)
         IN  [packaging_type |-> AsStr(a.packaging_type),
              top_match_confidence |-> a.top_match_confidence,
              top_match_margin |-> a.top_match_margin,
              top_match_accepted |-> a.top_match_accepted,
              candidate_count |-> Some(a.candidate_count),
              non_food_filtered_count |-> Some(a.non_food_filtered_count)]

\* _normalize_context
NormalizeContext(context) ==
    IF context = None THEN [k \in {} |-> None]
    ELSE [scan_mode |-> AsStr(The(context).scan_mode),
          device_info |-> The(context).device_info]

TimeOfLog == "t0"
TimeOfUpdate == "t1"

\* the record log_scan builds for a new id, before active_learning is set
NewRecord(scan_log_id, scan) ==
    [EmptyRecord EXCEPT
        !.scan_log_id = Some(scan_log_id),
        !.image_path = Some(<<"images", scan_log_id>>),
        !.predictions = Some(scan.predictions),
        !.ocr_output = Some(scan.ocr_entries),
        !.barcode = scan.barcode,
        !.predicted_product = scan.predicted_product,
        !.predicted_candidates = Some(scan.predicted_candidates),
        !.analysis = Some(SerializeAnalysis(scan.analysis)),
        !.final_predicted_product = scan.predicted_product,
        !.user_confirmed = None,
        !.user_corrected_to = None,
        !.not_food = Some(FALSE),
        !.bad_photo = Some(FALSE),
        !.feedback_notes = None,
        !.created_at = Some(TimeOfLog),
        !.updated_at = Some(TimeOfLog),
        !.request_id = scan.request_id,
        !.model = scan.model,
        !.latency_ms = scan.latency_ms,
        !.context = Some(NormalizeContext(scan.context))]

\* the record log_scan persists and returns
LogRecord(scan_log_id, scan) ==
    LET record == NewRecord(scan_log_id, scan)
    IN  [record EXCEPT !.active_learning = Some(DeriveActiveLearning(record))]

\* `if user_confirmed is not None:` ... of update_feedback
ApplyConfirmed(current, p) ==
    IF p.user_confirmed = None THEN current
    ELSE LET chosen == OrElseStr(current.user_corrected_to, current.predicted_product)
             c1 == [current EXCEPT !.user_confirmed = p.user_confirmed]
         IN  IF p.user_confirmed = Some(TRUE) /\ OrElseStr(chosen, None) # None
             THEN [c1 EXCEPT !.user_accepted_product = chosen]
             ELSE c1

\* variant: the correction stored as given
ApplyCorrected_Unstripped(current, p) ==
    IF p.user_corrected_to = None THEN current
    ELSE [current EXCEPT !.user_corrected_to = p.user_corrected_to,
                         !.user_accepted_product = p.user_corrected_to]

\* `if user_corrected_to is not None:` ...
ApplyCorrected(current, p) ==
    IF p.user_corrected_to = None THEN current
    ELSE LET normalized == StripOrNone(The(p.user_corrected_to))
             c1 == [current EXCEPT !.user_corrected_to = normalized]
         IN  IF IsSome(normalized)
             THEN [c1 EXCEPT !.user_accepted_product = normalized]
             ELSE c1

\* `if not_food is not None:` ... `if feedback_context is not None:` ...
ApplyFlagsAndNotes(current, p) ==
    [current EXCEPT
        !.not_food = IF p.not_food = None THEN @ ELSE p.not_food,
        !.bad_photo = IF p.bad_photo = None THEN @ ELSE p.bad_photo,
        !.feedback_notes =
            IF p.feedback_notes = None THEN @ ELSE StripOrNone(The(p.feedback_notes)),
        !.feedback_context =
            IF p.feedback_context = None THEN @
            ELSE Some(NormalizeFeedbackContext(The(p.feedback_context)))]

\* the partial update of update_feedback, in the order of the code
ApplyFeedback(current, p) ==
    ApplyFlagsAndNotes(ApplyCorrected(ApplyConfirmed(current, p), p), p)

\* variant: failure_tags taken from the data_quality the record held before
Rederive_StaleQuality(current) ==
    LET c1 == [current EXCEPT
                  !.data_quality = Some(DeriveDataQuality(current, ContextOf(current)))]
        c2 == [c1 EXCEPT !.failure_tags = Some(DeriveFailureTags(current))]
        c3 == [c2 EXCEPT !.training_priority = Some(TrainingPriority(The(c2.failure_tags)))]
    IN  [c3 EXCEPT !.active_learning = Some(DeriveActiveLearning(c3))]

\* variant: active_learning computed before failure_tags is assigned
Rederive_ActiveLearningFirst(current) ==
    LET c1 == [current EXCEPT
                  !.data_quality = Some(DeriveDataQuality(current, ContextOf(current)))]
        c2 == [c1 EXCEPT !.active_learning = Some(DeriveActiveLearning(c1))]
        c3 == [c2 EXCEPT !.failure_tags = Some(DeriveFailureTags(c2))]
    IN  [c3 EXCEPT !.training_priority = Some(TrainingPriority(The(c3.failure_tags)))]

\* the recomputation of update_feedback: data_quality, failure_tags,
\* training_priority and active_learning, each from the record as it then is
Rederive(current) ==
    LET c1 == [current EXCEPT
                  !.data_quality = Some(DeriveDataQuality(current, ContextOf(current)))]
        c2 == [c1 EXCEPT !.failure_tags = Some(DeriveFailureTags(c1))]
        c3 == [c2 EXCEPT !.training_priority = Some(TrainingPriority(The(c2.failure_tags)))]
    IN  [c3 EXCEPT !.active_learning = Some(DeriveActiveLearning(c3))]

\* variant: the update also restamps created_at
UpdatedRecord_RestampsCreation(current, p) ==
    [Rederive(ApplyFeedback(current, p)) EXCEPT
        !.created_at = Some(TimeOfUpdate), !.updated_at = Some(TimeOfUpdate)]

\* the record update_feedback writes, from the record it read
UpdatedRecord(current, p) ==
    [Rederive(ApplyFeedback(current, p)) EXCEPT !.updated_at = Some(TimeOfUpdate)]

\* a record file: missing, empty (opened for writing, nothing written yet), or
\* holding the JSON document of a record
MissingFile == [state |-> "missing", body |-> EmptyRecord]
EmptyFile == [state |-> "empty", body |-> EmptyRecord]
DocFile(record) == [state |-> "doc", body |-> record]

\* a record file that holds the beginning of a document only
PartialFile == [state |-> "partial", body |-> EmptyRecord]

\* json.loads accepts the text of the file: a whole document, or nothing at
\* all (then the code skips json.loads); it raises on a truncated document
Readable(file) == file.state # "partial"

\* what a write_text that raised can leave of the file: open(mode='w') failed
\* and the file is as it was; the file was truncated and nothing reached it;
\* a part of the text reached it
WriteOutcomes == {"untouched", "empty", "partial"}

FailedWrite(file, outcome) ==
    CASE outcome = "untouched" -> file
      [] outcome = "empty" -> EmptyFile
      [] outcome = "partial" -> PartialFile

\* record_path.exists()
RecordExists(file) == file.state # "missing"

\* `json.loads(current_raw) if current_raw else {}`
ParseFile(file) == IF file.state = "doc" THEN file.body ELSE EmptyRecord

\* the four derived fields of a record
DerivedOf(record) == [k \in DerivedKeys |-> record[k]]

\* FileNotFoundError out of update_feedback, or the record it returns
Raised == [raised |-> TRUE, record |-> EmptyRecord]
Returns(record) == [raised |-> FALSE, record |-> record]

\* update_feedback on the record file as the call finds it
UpdateFeedbackResult(file, p) ==
    IF ~RecordExists(file) THEN Raised
    ELSE Returns(UpdatedRecord(ParseFile(file), p))

\* variant: the endpoint answers 200 whatever update_feedback did
FeedbackReply_AlwaysOk(scan_log_id, result) ==
    [status |-> 200, code |-> "", ok |-> TRUE,
     scan_log_id |-> scan_log_id, at |-> result.record.updated_at]

\* main.py, /feedback: FileNotFoundError becomes BotError 404 SCAN_LOG_NOT_FOUND
FeedbackReply(scan_log_id, result) ==
    IF result.raised
    THEN [status |-> 404, code |-> "SCAN_LOG_NOT_FOUND", ok |-> FALSE,
          scan_log_id |-> scan_log_id, at |-> None]
    ELSE [status |-> 200, code |-> "", ok |-> TRUE,
          scan_log_id |-> scan_log_id, at |-> result.record.updated_at]

\* main.py, generic_error_handler: any other exception becomes a 500
ErrorReply(scan_log_id) ==
    [status |-> 500, code |-> "UNEXPECTED_SERVER_ERROR", ok |-> FALSE,
     scan_log_id |-> scan_log_id, at |-> None]

\* main.py, /log-scan: LogScanResponse
LogScanReply(record) ==
    [status |-> 200, code |-> "", ok |-> TRUE,
     scan_log_id |-> The(record.scan_log_id), at |-> record.created_at]

NoReply == [status |-> 0, code |-> "", ok |-> FALSE, scan_log_id |-> "", at |-> None]

---------------------------------------------------------------------------
(* The scans and the feedback requests of the model *)

Ids == {"id1", "id2"}

Analysis(packaging, confidence, margin, accepted, candidates, non_food) ==
    [packaging_type |-> packaging, top_match_confidence |-> confidence,
     top_match_margin |-> margin, top_match_accepted |-> accepted,
     candidate_count |-> candidates, non_food_filtered_count |-> non_food]

Scan(ocr, product, analysis, context) ==
    [predictions |-> <<"bottle">>, ocr_entries |-> ocr, barcode |-> None,
     predicted_product |-> product, predicted_candidates |-> <<>>,
     analysis |-> analysis, context |-> context,
     request_id |-> Some("req"), model |-> Some("yolo"), latency_ms |-> Some(120)]

\* an accepted match, scanned on an iPhone
ScanAccepted ==
    Scan({"coca cola", "zero sugar"}, Some("Coca Cola Zero Sugar"),
         Some(Analysis(Some("bottle"), Some(8778), Some(5167), Some(TRUE), 2, 0)),
         Some([scan_mode |-> Some("barcode"),
               device_info |-> Some(<<"iphone", "ua safari iphone">>)]))

\* a close call between two candidates, with a price tag in view
ScanClose ==
    Scan({"urge", "tilbud"}, Some("Urge"),
         Some(Analysis(Some("can"), Some(6115), Some(500), Some(FALSE), 3, 1)),
         Some([scan_mode |-> None,
               device_info |-> Some(<<"win32", "ua chrome windows">>)]))

\* nothing recognized, no analysis and no context passed
ScanUnknown == Scan({}, None, None, None)

\* nothing recognized, scanned with Firefox on a Linux phone
ScanLinux ==
    Scan({}, None, None,
         Some([scan_mode |-> Some("camera"),
               device_info |-> Some(<<"linux armv8l", "ua firefox linux">>)]))

Scans == {ScanAccepted, ScanClose, ScanUnknown, ScanLinux}

\* the feedback_context of tests/test_api.py, and one of a clean capture that
\* carries a key the logger does not know
CtxPoor ==
    [frontVisibilityScore |-> Some(3100), selectedFrameSharpness |-> Some(1900),
     selectedFrameGlare |-> Some(8300), selectedFrameBrightness |-> Some(2400),
     packagingType |-> Some("can"), topMatchMargin |-> Some(300),
     shouldPromptRetake |-> Some(TRUE)]

CtxClean ==
    [frontVisibilityScore |-> Some(9000), selectedFrameSharpness |-> Some(6000),
     selectedFrameQuality |-> Some(8000), ocrTextCharCount |-> Some(24),
     ocrBestLineScore |-> Some(9100), packagingType |-> Some(" bottle "),
     topMatchMargin |-> Some(0), scanSessionId |-> Some("s1"),
     debug |-> Some("x")]

\* a dim, hard to read capture: two condition flags (blur and weak_ocr)
CtxDim ==
    [selectedFrameSharpness |-> Some(1900), ocrTextCharCount |-> Some(3),
     ocrBestLineScore |-> Some(7000)]

\* a FeedbackRequest without its scan_log_id: each field None unless provided
NoFeedback == [k \in FeedbackKeys |-> None]

Provide(field, value) == [NoFeedback EXCEPT ![field] = Some(value)]

\* the fields a request provides
Provided(p) == {k \in FeedbackKeys : IsSome(p[k])}

SingleFieldPayloads ==
    {Provide("user_confirmed", TRUE), Provide("user_confirmed", FALSE),
     Provide("user_corrected_to", ""), Provide("user_corrected_to", " banana "),
     Provide("user_corrected_to", "URGE"),
     Provide("not_food", TRUE), Provide("not_food", FALSE),
     Provide("bad_photo", TRUE),
     Provide("feedback_context", CtxPoor), Provide("feedback_context", CtxClean),
     Provide("feedback_context", CtxDim)}

Payloads ==
    SingleFieldPayloads \cup
    {NoFeedback,
     [NoFeedback EXCEPT !.user_confirmed = Some(TRUE),
                        !.user_corrected_to = Some(" banana ")],
     [NoFeedback EXCEPT !.not_food = Some(TRUE), !.bad_photo = Some(TRUE),
                        !.feedback_notes = Some(" blurry "),
                        !.feedback_context = Some(CtxPoor)]}

---------------------------------------------------------------------------
(* main.py, /detect: from the ranked candidates to the logged scan *)

PREDICT_CONFIDENCE == 7500

\* candidate_margin: the confidence of rank 1 less that of rank 2; the
\* confidence of rank 1 when it is alone; 0.0 without candidates
CandidateMargin(ranked_candidates) ==
    IF Len(ranked_candidates) > 1
    THEN ranked_candidates[1].confidence - ranked_candidates[2].confidence
    ELSE IF Len(ranked_candidates) > 0 THEN ranked_candidates[1].confidence
    ELSE 0

\* predicted_product: the top candidate when it is accepted or its confidence
\* is at least 0.75 (a product's name is modelled by its id)
DetectPredictedProduct(ranked_candidates) ==
    IF ranked_candidates # <<>>
       /\ (ranked_candidates[1].accepted
           \/ ranked_candidates[1].confidence >= PREDICT_CONFIDENCE)
    THEN Some(ranked_candidates[1].product_id)
    ELSE None

\* the `analysis` argument of log_scan, in the keys the logger keeps
\* (non_food_filtered_count comes from the detections, here none filtered)
DetectAnalysis(ranked_candidates, packaging_type) ==
    IF ranked_candidates = <<>>
    THEN Analysis(packaging_type, None, None, Some(FALSE), 0, 0)
    ELSE Analysis(packaging_type,
                  Some(ranked_candidates[1].confidence),
                  Some(CandidateMargin(ranked_candidates)),
                  Some(ranked_candidates[1].accepted),
                  Len(ranked_candidates), 0)

\* the record log_scan returns for the scan /detect logs
DetectRecord(ranked_candidates, packaging_type) ==
    LogRecord("id1",
              Scan({}, DetectPredictedProduct(ranked_candidates),
                   Some(DetectAnalysis(ranked_candidates, packaging_type)), None))

---------------------------------------------------------------------------
(* product_catalog.py: ProductCatalog.__init__, _resolve_path, _load_items *)

\* what the file system holds at a path: nothing, something read_text cannot
\* read as UTF-8 text (a directory, bytes that are not UTF-8), text json.loads
\* rejects (an empty file included), a JSON value that is no array, an array
AbsentFile == [kind |-> "absent", rows |-> <<>>]

UnreadableFile == [kind |-> "unreadable", rows |-> <<>>]

MalformedFile == [kind |-> "malformed", rows |-> <<>>]

NotArrayFile == [kind |-> "not_array", rows |-> <<>>]

ArrayFile(rows) == [kind |-> "array", rows |-> rows]

\* the rows of an array: a value that is no object, an object with neither
\* brand nor product_name, an object that names a product, and one whose
\* "aliases" is null
ScalarRow == [kind |-> "scalar"]

AnonymousRow == [kind |-> "anonymous"]

ProductRow(item) == [kind |-> "product", item |-> item]

NullAliasesRow(item) == [kind |-> "null_aliases", item |-> item]

\* _resolve_path: the given path when it exists or is absolute, else the
\* bundled data/products.json when that exists, else the given path
ResolvePath(source) ==
    IF source.file.kind # "absent" \/ source.absolute THEN source.file
    ELSE IF source.bundled.kind # "absent" THEN source.bundled
    ELSE source.file

Loaded(items) == [raised |-> FALSE, items |-> items]

LoadRaised == [raised |-> TRUE, items |-> <<>>]

\* the loop over the rows: rows that are no object or name nothing are
\* skipped, iterating row.get('aliases', []) raises on null
RowsRaise(rows) == \E i \in 1..Len(rows) : rows[i].kind = "null_aliases"

RowItems(rows) ==
    LET kept == SelectSeq(rows, LAMBDA row : row.kind = "product")
    IN  [i \in 1..Len(kept) |-> kept[i].item]

\* _load_items
LoadItems(path) ==
    IF path.kind = "absent" THEN Loaded(<<>>)
    ELSE IF path.kind \in {"unreadable", "malformed"} THEN LoadRaised
    ELSE IF path.kind = "not_array" THEN Loaded(<<>>)
    ELSE IF RowsRaise(path.rows) THEN LoadRaised
    ELSE Loaded(RowItems(path.rows))

FileChoices ==
    { AbsentFile, UnreadableFile, MalformedFile, NotArrayFile,
      ArrayFile(<<>>),
      ArrayFile(<<ScalarRow, ProductRow(Items[3]), AnonymousRow, ProductRow(Items[2])>>),
      ArrayFile(<<ProductRow(Items[1]), NullAliasesRow(Items[4])>>) }

BundledChoices == { AbsentFile, ArrayFile(<<ProductRow(Items[4])>>) }

Sources == [absolute : BOOLEAN, file : FileChoices, bundled : BundledChoices]

LoadEvidences ==
    { ev \in Evidences :
        /\ ev.top_k = 2
        /\ ev.barcode = None
        /\ ev.visual_hints = <<>>
        /\ ev.brand_hint = <<>>
        /\ ev.visual_score_by_label = {}
        /\ ev.structured_fields = Fields(<<>>, <<>>, <<>>, None, None, None)
        /\ ev.packaging_type = None }

---------------------------------------------------------------------------
(* The state machines.  Three specifications share the variables: RankSpec   *)
(* makes one call of rank_candidates; FeedbackSpec makes log_scan and        *)
(* update_feedback calls one after another; StoreSpec makes them from        *)
(* concurrent threads.  Each leaves the variables of the others at rest.     *)

Threads == {"t1", "t2", "t3"}

NoDerived == [k \in DerivedKeys |-> None]

NoCall == [op |-> "none", id |-> "", payload |-> NoFeedback, scan |-> ScanUnknown]

RankAtRest == evidence = None /\ ranked = <<>> /\ scored = {} /\ rpc = "idle"

NormAtRest == nvalue = <<>> /\ norder = <<>> /\ nresult = <<>> /\ npc = "idle"

ExtractAtRest == xrows = <<>> /\ xfields = <<>> /\ xpc = "idle"

LoadAtRest == csource = "" /\ citems = <<>> /\ cpc = "idle"

SeqAtRest ==
    reply = NoReply /\ retried = FALSE /\ firstDerived = NoDerived

ThreadsAtRest ==
    /\ tpc = [t \in Threads |-> "idle"]
    /\ tcall = [t \in Threads |-> NoCall]
    /\ tcur = [t \in Threads |-> EmptyRecord]
    /\ tres = [t \in Threads |-> NoReply]

\* a new DatasetLogger on an empty data directory
EmptyStore ==
    /\ files = [id \in Ids |-> MissingFile]
    /\ logged = [id \in Ids |-> None]
    /\ lock = None

---------------------------------------------------------------------------
(* RankSpec *)

RankInit ==
    /\ evidence \in Evidences
    /\ ranked = <<>>
    /\ scored = {}
    /\ rpc = "called"
    /\ EmptyStore /\ fresh = {}
    /\ SeqAtRest /\ ThreadsAtRest /\ NormAtRest
    /\ ExtractAtRest /\ LoadAtRest

\* one call of rank_candidates on the loaded catalog
RankCall ==
    /\ rpc = "called"
    /\ ranked' = RankCandidates(Items, evidence)
    /\ scored' = ProductIds(Candidates(Items, evidence))
    /\ rpc' = "returned"
    /\ UNCHANGED <<evidence, storeVars, seqVars, threadVars, normVars, extractVars, loadVars>>

RankNext == RankCall

RankSpec == RankInit /\ [][RankNext]_vars

---------------------------------------------------------------------------
(* NormSpec: one call of _normalize_text in a process whose set order is     *)
(* one of StopOrders                                                         *)

NormInit ==
    /\ nvalue \in Values
    /\ norder \in StopOrders
    /\ nresult = <<>>
    /\ npc = "called"
    /\ EmptyStore /\ fresh = {}
    /\ SeqAtRest /\ ThreadsAtRest /\ RankAtRest
    /\ ExtractAtRest /\ LoadAtRest

NormalizeCall ==
    /\ npc = "called"
    /\ nresult' = NormalizeText(nvalue, norder)
    /\ npc' = "returned"
    /\ UNCHANGED <<nvalue, norder, rankVars, storeVars, seqVars, threadVars,
                   extractVars, loadVars>>

NormNext == NormalizeCall

NormSpec == NormInit /\ [][NormNext]_vars

---------------------------------------------------------------------------
(* ExtractSpec: one call of _extract_structured_ocr_fields *)

ExtractInit ==
    /\ xrows \in DetectionLists(MaxRows)
    /\ xfields = <<>>
    /\ xpc = "called"
    /\ EmptyStore /\ fresh = {}
    /\ SeqAtRest /\ ThreadsAtRest /\ RankAtRest /\ NormAtRest /\ LoadAtRest

ExtractCall ==
    /\ xpc = "called"
    /\ xfields' = ExtractStructuredOcrFields(xrows, xrows)
    /\ xpc' = "returned"
    /\ UNCHANGED <<xrows, rankVars, storeVars, seqVars, threadVars, normVars, loadVars>>

ExtractNext == ExtractCall

ExtractSpec == ExtractInit /\ [][ExtractNext]_vars

---------------------------------------------------------------------------
(* LoadSpec: a catalog is constructed on a source, then asked to rank *)

LoadInit ==
    /\ csource \in Sources
    /\ citems = <<>>
    /\ cpc = "new"
    /\ evidence \in LoadEvidences
    /\ ranked = <<>>
    /\ scored = {}
    /\ rpc = "idle"
    /\ EmptyStore /\ fresh = {}
    /\ SeqAtRest /\ ThreadsAtRest /\ NormAtRest
    /\ ExtractAtRest

\* ProductCatalog(path): the constructor returns with the items loaded
Construct ==
    /\ cpc = "new"
    /\ ~LoadItems(ResolvePath(csource)).raised
    /\ citems' = LoadItems(ResolvePath(csource)).items
    /\ cpc' = "loaded"
    /\ UNCHANGED <<csource, rankVars, storeVars, seqVars, threadVars, normVars, extractVars>>

\* ProductCatalog(path): the exception of read_text, json.loads or the row
\* loop leaves the constructor, no catalog exists
ConstructRaises ==
    /\ cpc = "new"
    /\ LoadItems(ResolvePath(csource)).raised
    /\ cpc' = "raised"
    /\ UNCHANGED <<csource, citems, rankVars, storeVars, seqVars, threadVars, normVars, extractVars>>

\* rank_candidates on the constructed catalog
RankLoaded ==
    /\ cpc = "loaded"
    /\ rpc = "idle"
    /\ ranked' = RankCandidates(citems, evidence)
    /\ scored' = IF citems = <<>> THEN {} ELSE ProductIds(Candidates(citems, evidence))
    /\ rpc' = "returned"
    /\ UNCHANGED <<evidence, storeVars, seqVars, threadVars, normVars, extractVars, loadVars>>

LoadNext == Construct \/ ConstructRaises \/ RankLoaded

LoadSpec == LoadInit /\ [][LoadNext]_vars

---------------------------------------------------------------------------
(* FeedbackSpec: calls one after another *)

FeedbackInit ==
    /\ EmptyStore /\ fresh = {"id1"}
    /\ SeqAtRest /\ ThreadsAtRest /\ RankAtRest /\ NormAtRest
    /\ ExtractAtRest /\ LoadAtRest

\* log_scan, and the /log-scan response
LogScan(scan) ==
    \E id \in fresh :
        LET record == LogRecord(id, scan)
        IN  /\ fresh' = fresh \ {id}
            /\ files' = [files EXCEPT ![id] = DocFile(record)]
            /\ logged' = [logged EXCEPT ![id] = Some(record)]
            /\ reply' = LogScanReply(record)
            /\ retried' = FALSE
            /\ firstDerived' = NoDerived
            /\ UNCHANGED <<lock, rankVars, threadVars, normVars, extractVars, loadVars>>

\* the store after update_feedback returned `result` for `id`
Written(store, id, result) ==
    IF result.raised THEN store ELSE [store EXCEPT ![id] = DocFile(result.record)]

\* update_feedback through /feedback
UpdateFeedback(id, p) ==
    LET result == UpdateFeedbackResult(files[id], p)
    IN  /\ files' = Written(files, id, result)
        /\ reply' = FeedbackReply(id, result)
        /\ retried' = FALSE
        /\ firstDerived' = NoDerived
        /\ UNCHANGED <<fresh, logged, lock, rankVars, threadVars, normVars, extractVars, loadVars>>

\* a client retry: the same /feedback request is delivered twice in a row
RepeatFeedback(id, p) ==
    LET first == UpdateFeedbackResult(files[id], p)
        second == UpdateFeedbackResult(Written(files, id, first)[id], p)
    IN  /\ files' = Written(Written(files, id, first), id, second)
        /\ reply' = FeedbackReply(id, second)
        /\ retried' = ~first.raised
        /\ firstDerived' = DerivedOf(first.record)
        /\ UNCHANGED <<fresh, logged, lock, rankVars, threadVars, normVars, extractVars, loadVars>>

FeedbackNext ==
    \/ \E scan \in Scans : LogScan(scan)
    \/ \E id \in Ids, p \in Payloads : UpdateFeedback(id, p)
    \/ \E id \in Ids, p \in Payloads : RepeatFeedback(id, p)

FeedbackSpec == FeedbackInit /\ [][FeedbackNext]_vars

---------------------------------------------------------------------------
(* StoreSpec: calls from concurrent threads, one call per thread, on a store *)
(* that holds one record already.  update_feedback checks that the record   *)
(* file exists, then inside `with self._lock:` reads it, and then writes it  *)
(* and leaves the block; log_scan draws its id, then inside the lock builds  *)
(* the record, and then writes it and leaves the block.                      *)

StorePayloads ==
    {Provide("user_confirmed", TRUE), Provide("user_corrected_to", " banana "),
     Provide("not_food", TRUE), Provide("bad_photo", TRUE),
     Provide("feedback_notes", " blurry "), Provide("feedback_context", CtxPoor)}

StoreScans == {ScanAccepted}

Call(op, id, p, scan) == [op |-> op, id |-> id, payload |-> p, scan |-> scan]

StoreInit ==
    /\ files = [id \in Ids |-> IF id = "id1" THEN DocFile(LogRecord(id, ScanClose))
                               ELSE MissingFile]
    /\ logged = [id \in Ids |-> IF id = "id1" THEN Some(LogRecord(id, ScanClose))
                                ELSE None]
    /\ fresh = {"id2"}
    /\ lock = None
    /\ ThreadsAtRest /\ SeqAtRest /\ RankAtRest /\ NormAtRest
    /\ ExtractAtRest /\ LoadAtRest

\* variant: no lock around the read and the write
LockFree_NoLock(t) == TRUE

\* threading.Lock.acquire of the one lock of the logger (__init__, self._lock)
LockFree(t) == lock = None

\* update_feedback up to the lock: the existence check
CallUpdateFeedback(t, id, p) ==
    /\ tpc[t] = "idle"
    /\ tcall' = [tcall EXCEPT ![t] = Call("update_feedback", id, p, ScanUnknown)]
    /\ IF RecordExists(files[id])
       THEN /\ tpc' = [tpc EXCEPT ![t] = "waiting"]
            /\ UNCHANGED tres
       ELSE /\ tpc' = [tpc EXCEPT ![t] = "done"]
            /\ tres' = [tres EXCEPT ![t] = FeedbackReply(id, Raised)]
    /\ UNCHANGED <<tcur, storeVars, seqVars, rankVars, normVars, extractVars, loadVars>>

\* log_scan up to the lock: uuid.uuid4()
CallLogScan(t, scan) ==
    /\ tpc[t] = "idle"
    /\ \E id \in fresh :
          /\ fresh' = fresh \ {id}
          /\ tcall' = [tcall EXCEPT ![t] = Call("log_scan", id, NoFeedback, scan)]
    /\ tpc' = [tpc EXCEPT ![t] = "waiting"]
    /\ UNCHANGED <<files, logged, lock, tcur, tres, seqVars, rankVars, normVars, extractVars, loadVars>>

\* update_feedback enters the lock, reads the record and updates it in memory
EnterUpdateFeedback(t) ==
    /\ tpc[t] = "waiting"
    /\ tcall[t].op = "update_feedback"
    /\ LockFree(t)
    /\ Readable(files[tcall[t].id])
    /\ lock' = Some(t)
    /\ tcur' = [tcur EXCEPT ![t] =
                   UpdatedRecord(ParseFile(files[tcall[t].id]), tcall[t].payload)]
    /\ tpc' = [tpc EXCEPT ![t] = "locked"]
    /\ UNCHANGED <<files, fresh, logged, tcall, tres, seqVars, rankVars, normVars, extractVars, loadVars>>

\* log_scan enters the lock and builds the record
EnterLogScan(t) ==
    /\ tpc[t] = "waiting"
    /\ tcall[t].op = "log_scan"
    /\ LockFree(t)
    /\ lock' = Some(t)
    /\ tcur' = [tcur EXCEPT ![t] = LogRecord(tcall[t].id, tcall[t].scan)]
    /\ tpc' = [tpc EXCEPT ![t] = "locked"]
    /\ UNCHANGED <<files, fresh, logged, tcall, tres, seqVars, rankVars, normVars, extractVars, loadVars>>

\* write_text of the record, the end of the `with` block, and the response
WriteAndReturn(t) ==
    /\ tpc[t] = "locked"
    /\ files' = [files EXCEPT ![tcall[t].id] = DocFile(tcur[t])]
    /\ lock' = None
    /\ logged' = IF tcall[t].op = "log_scan"
                 THEN [logged EXCEPT ![tcall[t].id] = Some(tcur[t])]
                 ELSE logged
    /\ tres' = [tres EXCEPT ![t] =
                   IF tcall[t].op = "log_scan" THEN LogScanReply(tcur[t])
                   ELSE FeedbackReply(tcall[t].id, Returns(tcur[t]))]
    /\ tpc' = [tpc EXCEPT ![t] = "done"]
    /\ UNCHANGED <<fresh, tcall, tcur, seqVars, rankVars, normVars, extractVars, loadVars>>

StoreNext ==
    \E t \in Threads :
        \/ \E id \in Ids, p \in StorePayloads : CallUpdateFeedback(t, id, p)
        \/ \E scan \in StoreScans : CallLogScan(t, scan)
        \/ EnterUpdateFeedback(t)
        \/ EnterLogScan(t)
        \/ WriteAndReturn(t)

StoreSpec == StoreInit /\ [][StoreNext]_vars

---------------------------------------------------------------------------
(* FaultSpec: the calls of StoreSpec on a disk that can fail.  json.loads    *)
(* raises on a truncated record, and write_text can raise and leave the      *)
(* record file as it was, empty or truncated.  An exception inside           *)
(* `with self._lock:` leaves the block, which releases the lock.  A thread   *)
(* that has started a call keeps running.                                    *)

FaultPayloads ==
    {Provide("not_food", TRUE), Provide("user_corrected_to", " banana ")}

\* the threads that call in FaultSpec
FaultThreads == {"t1", "t2"}

FaultInit == StoreInit

\* variant: an exception leaves the lock with the thread that raised
LockAfterRaise_Held(t) == Some(t)

\* the lock after an exception left the `with self._lock:` block of thread t
LockAfterRaise(t) == None

\* update_feedback enters the lock and json.loads raises on the record it read
ReadFails(t) ==
    /\ tpc[t] = "waiting"
    /\ tcall[t].op = "update_feedback"
    /\ LockFree(t)
    /\ ~Readable(files[tcall[t].id])
    /\ lock' = LockAfterRaise(t)
    /\ tres' = [tres EXCEPT ![t] = ErrorReply(tcall[t].id)]
    /\ tpc' = [tpc EXCEPT ![t] = "done"]
    /\ UNCHANGED <<files, fresh, logged, tcall, tcur, seqVars, rankVars, normVars, extractVars, loadVars>>

\* write_text of the record raises (disk full, permission), inside the lock
WriteFails(t, outcome) ==
    /\ tpc[t] = "locked"
    /\ files' = [files EXCEPT ![tcall[t].id] = FailedWrite(@, outcome)]
    /\ lock' = LockAfterRaise(t)
    /\ tres' = [tres EXCEPT ![t] = ErrorReply(tcall[t].id)]
    /\ tpc' = [tpc EXCEPT ![t] = "done"]
    /\ UNCHANGED <<fresh, logged, tcall, tcur, seqVars, rankVars, normVars, extractVars, loadVars>>

\* the steps of a call that has started
Proceed(t) ==
    \/ EnterUpdateFeedback(t)
    \/ EnterLogScan(t)
    \/ ReadFails(t)
    \/ WriteAndReturn(t)
    \/ \E outcome \in WriteOutcomes : WriteFails(t, outcome)

FaultNext ==
    \E t \in FaultThreads :
        \/ \E id \in Ids, p \in FaultPayloads : CallUpdateFeedback(t, id, p)
        \/ \E scan \in StoreScans : CallLogScan(t, scan)
        \/ Proceed(t)

\* the steps of Proceed(t), told by what they do to the position of thread t:
\* a waiting call whose lock is free enters it, or raises on a record it cannot
\* read; a call inside the lock leaves it.  Every step of Proceed(t) is a
\* step of Runs(t), no other step of FaultNext is, and the two are enabled in
\* the same states.
Runs(t) ==
    /\ \/ tpc[t] = "waiting" /\ LockFree(t)
       \/ tpc[t] = "locked"
    /\ \E pc \in {"locked", "done"} \ {tpc[t]} : tpc' = [tpc EXCEPT ![t] = pc]

\* a thread that can take the next step of its call eventually takes it
FaultSpec ==
    FaultInit /\ [][FaultNext]_vars /\ \A t \in FaultThreads : WF_tpc(Runs(t))

---------------------------------------------------------------------------
(* Properties of rank_candidates *)

Returned == rpc = "returned"

\* the catalog items whose barcode equals the observed barcode
BarcodeItems == {i \in 1..Len(Items) : BarcodeMatches(Items[i], evidence)}

\* C1: in a returned list, accepted is true only at rank 1, only with
\* confidence >= 0.6, and only when the raw_score of rank 1 exceeds that of
\* rank 2 of the list by at least 0.08; no row at rank > 1 is accepted.
C1_AcceptedOnlyAtRankOne ==
    Returned =>
        \A i \in 1..Len(ranked) :
            ranked[i].accepted =>
                /\ i = 1 /\ ranked[i].rank = 1
                /\ ranked[1].confidence >= ACCEPT_CONFIDENCE
                /\ Len(ranked) >= 2 =>
                       ranked[1].raw_score - ranked[2].raw_score >= ACCEPT_MARGIN

\* an accepted top candidate that had a runner-up in the list
C1_Witness ==
    Returned /\ Len(ranked) >= 2 /\ ranked[1].accepted

\* C2 (as claimed): when exactly one catalog item has the observed barcode,
\* that item is rank 1 of the returned list, whatever else the evidence says.
C2_UniqueBarcodeRanksFirst ==
    (Returned /\ Cardinality(BarcodeItems) = 1) =>
        /\ ranked # <<>>
        /\ ranked[1].product_id = Items[CHOOSE i \in BarcodeItems : TRUE].product_id

\* C3: the returned list is ordered by raw_score, non-increasing; rows of equal
\* raw_score are ordered by confidence, non-increasing; rank is the position.
C3_SortedByRawScoreThenConfidence ==
    Returned =>
        /\ \A i \in 1..Len(ranked) : ranked[i].rank = i
        /\ \A i \in 1..(Len(ranked) - 1) :
              \/ ranked[i].raw_score > ranked[i + 1].raw_score
              \/ /\ ranked[i].raw_score = ranked[i + 1].raw_score
                 /\ ranked[i].confidence >= ranked[i + 1].confidence

\* two neighbours with the same raw_score and different confidences
C3_Witness ==
    /\ Returned
    /\ \E i \in 1..(Len(ranked) - 1) :
          /\ ranked[i].raw_score = ranked[i + 1].raw_score
          /\ ranked[i].confidence > ranked[i + 1].confidence

\* clamp(raw_score / 1.8, 0, 1), times 180, with raw_score in ten-thousandths
ClampedRaw(raw) == Min2(CONFIDENCE_CEILING, Max2(0, raw * ScorePerUnit))

\* C4 (as claimed, read at the 4-decimal resolution of the returned values):
\* confidence is clamp(raw_score / 1.8, 0, 1) rounded to 4 decimals.
C4_ConfidenceFromRawScore ==
    Returned =>
        \A i \in 1..Len(ranked) :
            ranked[i].confidence =
                RoundDiv(ClampedRaw(ranked[i].raw_score), CONFIDENCE_CEILING \div One)

\* C4 (amended): confidence is clamp(score / 1.8, 0, 1) rounded to 4 decimals
\* for the unrounded score whose 4-decimal rounding is raw_score; so it lies in
\* [0, 1] and is less than 0.0001 away from clamp(raw_score / 1.8, 0, 1).
C4_ConfidenceFromUnroundedScore ==
    Returned =>
        \A i \in 1..Len(ranked) :
            LET row == ranked[i]
                per == CONFIDENCE_CEILING \div One
            IN  /\ 0 <= row.confidence /\ row.confidence <= One
                /\ 2 * Abs(per * row.confidence
                           - Min2(CONFIDENCE_CEILING, Max2(0, row.score))) <= per
                /\ 2 * Abs(ScorePerUnit * row.raw_score - row.score) <= ScorePerUnit
                /\ Abs(per * row.confidence - ClampedRaw(row.raw_score)) < per

\* a row whose score is above the ceiling (clamped to 1.0) next to the claim's
\* other case, a row whose confidence is not the rounding of raw_score / 1.8
C4_Witness ==
    /\ Returned
    /\ \E i \in 1..Len(ranked) :
          ranked[i].score > CONFIDENCE_CEILING /\ ranked[i].confidence = One
    /\ \E i \in 1..Len(ranked) :
          ranked[i].confidence #
              RoundDiv(ClampedRaw(ranked[i].raw_score), CONFIDENCE_CEILING \div One)

\* C16 (as claimed): score_margin_to_next is raw_score[i] - raw_score[i+1] at
\* every position but the last, and 0 at the last position.
C16_MarginZeroAtLast ==
    Returned =>
        \A i \in 1..Len(ranked) :
            ranked[i].score_margin_to_next =
                IF i < Len(ranked) THEN ranked[i].raw_score - ranked[i + 1].raw_score
                ELSE 0

\* C16 (amended): score_margin_to_next is raw_score[i] - raw_score[i+1] at
\* every position but the last, and the row's own raw_score at the last
\* position (a missing next row counts as score 0), a single row included.
C16_MarginOwnScoreAtLast ==
    Returned =>
        \A i \in 1..Len(ranked) :
            ranked[i].score_margin_to_next =
                IF i < Len(ranked) THEN ranked[i].raw_score - ranked[i + 1].raw_score
                ELSE ranked[i].raw_score

\* a list of three rows: two margins to the next row, and a last row whose
\* margin is its own positive raw_score
C16_Witness ==
    /\ Returned
    /\ Len(ranked) = 3
    /\ ranked[1].score_margin_to_next = ranked[1].raw_score - ranked[2].raw_score
    /\ ranked[1].score_margin_to_next > 0
    /\ ranked[2].score_margin_to_next = ranked[2].raw_score - ranked[3].raw_score
    /\ ranked[3].score_margin_to_next = ranked[3].raw_score
    /\ ranked[3].raw_score > 0

\* the catalog item meets one of the five prefilter conditions on the evidence
\* of the call: its barcode is the observed barcode; its brand, an alias or a
\* keyword is in the OCR text; the brand hint is in its searchable text; a
\* visual hint is in its searchable text; the observed packaging is one of its
\* packagings
Qualifies(item) ==
    LET blob == OcrBlob(evidence)
        packaging == NormalizePackaging(evidence.packaging_type)
    IN  \/ IsSome(evidence.barcode) /\ evidence.barcode = item.barcode
        \/ /\ blob # <<>>
           /\ \E t \in {item.brand} \cup Range(item.aliases) \cup Range(item.keywords) :
                 IsSub(t, blob)
        \/ evidence.brand_hint # <<>> /\ IsSub(evidence.brand_hint, Searchable(item))
        \/ \E h \in Range(evidence.visual_hints) : h # <<>> /\ IsSub(h, Searchable(item))
        \/ IsSome(packaging) /\ The(packaging) \in item.packaging

\* C17: the items rank_candidates scores are exactly the catalog items that
\* meet at least one prefilter condition when some item meets one, and the
\* whole catalog when none does.
C17_ScoredSetIsPrefilterOrAll ==
    Returned =>
        LET qualified == {item \in Range(Items) : Qualifies(item)}
        IN  scored = IF qualified # {} THEN {item.product_id : item \in qualified}
                     ELSE {item.product_id : item \in Range(Items)}

\* a call in which no item met a prefilter condition: the whole catalog was
\* scored, and the structured fields alone ranked an item
C17_Witness ==
    /\ Returned
    /\ \A item \in Range(Items) : ~Qualifies(item)
    /\ scored = ProductIds(Items)
    /\ ranked # <<>>

\* the reasons of the strong single-channel signals of the scorer
StrongSignals ==
    {"barcode_exact", "brand_structured_exact", "brand_exact",
     "product_structured_exact", "product_exact"}

\* the sorted rows of the scoring loop run over the whole catalog
FullCatalogRanking ==
    SortRanked(SelectSeq([i \in 1..Len(Items) |-> Row(Items[i], evidence)],
                         LAMBDA row : Kept(row.score)))

\* C18 (as claimed): every catalog item on which the scorer would fire a strong
\* single-channel signal is among the items the call scored, and rank 1 of the
\* returned list is rank 1 of the whole catalog scored.
C18_PrefilterKeepsStrongMatches ==
    Returned =>
        /\ \A item \in Range(Items) :
              Range(Reasons(item, evidence)) \cap StrongSignals # {}
                  => item.product_id \in scored
        /\ IF FullCatalogRanking = <<>> THEN ranked = <<>>
           ELSE /\ ranked # <<>>
                /\ ranked[1].product_id = FullCatalogRanking[1].product_id

WithoutVolume(ev) == [ev EXCEPT !.structured_fields.volume_ml = None]

\* the catalog item a returned row was scored from
ItemOf(row) == Items[CHOOSE i \in 1..Len(Items) : Items[i].product_id = row.product_id]

VolumeDelta(i) ==
    LET item == ItemOf(ranked[i])
        observed == evidence.structured_fields.volume_ml
    IN  IF IsSome(observed) /\ IsSome(item.volume_ml)
        THEN Abs(The(observed) - The(item.volume_ml)) ELSE 0 - 1

\* calls that return a candidate 36 to 299 ml off, one exactly 35 ml off and
\* one exactly 300 ml off
C28_WitnessBetween ==
    Returned /\ \E i \in 1..Len(ranked) : VolumeDelta(i) \in 36..299

C28_WitnessNearEdge ==
    Returned /\ \E i \in 1..Len(ranked) : VolumeDelta(i) = 35

C28_WitnessFarEdge ==
    Returned /\ \E i \in 1..Len(ranked) : VolumeDelta(i) = 300

---------------------------------------------------------------------------
(* Properties of _normalize_text (NormSpec) *)

\* C14 (as claimed): normalizing the string a call returned gives that string
\* again, normalize(normalize(s)) = normalize(s).
C14_NormalizeIdempotent ==
    npc = "returned" => NormalizeText(nresult, norder) = nresult

\* C15 (as claimed): the string a call returns is the same whatever order the
\* stop phrases are removed in.
C15_NormalizeOrderIndependent ==
    npc = "returned" =>
        \A order \in StopOrders : NormalizeText(nvalue, order) = nresult

---------------------------------------------------------------------------
(* Properties of update_feedback, calls one after another (FeedbackSpec) *)

\* the record update_feedback would write for request p to the record of id
After(id, p) == UpdatedRecord(ParseFile(files[id]), p)

\* the record file the last /feedback request addressed
Addressed == files[reply.scan_log_id]

\* C5: when the same request is delivered twice in a row, data_quality,
\* failure_tags, training_priority and active_learning after the second
\* delivery are those the first delivery left.
C5_RepeatedFeedbackSameDerived ==
    retried => DerivedOf(Addressed.body) = firstDerived

\* a repeated request that left a low quality bucket and a wrong product match
C5_Witness ==
    /\ retried
    /\ reply.ok
    /\ The(firstDerived.data_quality).quality_bucket = "low"
    /\ "wrong_product_match" \in The(firstDerived.failure_tags)
    /\ firstDerived.training_priority = Some("high")

\* C9 as claimed: in every state of the store and for every request, a field
\* the request does not provide keeps its stored value, and a field it provides
\* is stored with exactly the provided value.
C9_ProvidedValueStoredAsGiven ==
    \A id \in Ids, p \in Payloads :
        RecordExists(files[id]) =>
            \A f \in FeedbackKeys :
                After(id, p)[f] = IF p[f] = None THEN files[id].body[f] ELSE p[f]

\* C9, amended: a field the request does not provide keeps its stored value;
\* a provided flag (user_confirmed, not_food, bad_photo) is stored as given; a
\* provided text (user_corrected_to, feedback_notes) is stored stripped, and as
\* None when nothing is left; a provided feedback_context is stored normalized
\* to the keys the logger knows.
C9_AbsentKeptProvidedNormalized ==
    \A id \in Ids, p \in Payloads :
        RecordExists(files[id]) =>
            \A f \in FeedbackKeys :
                After(id, p)[f] =
                    IF p[f] = None THEN files[id].body[f]
                    ELSE IF f \in {"user_confirmed", "not_food", "bad_photo"} THEN p[f]
                    ELSE IF f \in {"user_corrected_to", "feedback_notes"}
                         THEN (IF Strip(The(p[f])) = "" THEN None
                               ELSE Some(Strip(The(p[f]))))
                    ELSE Some([k \in ContextKeys |->
                                 IF k \in ContextStrKeys THEN AsStr(Get(The(p[f]), k))
                                 ELSE Get(The(p[f]), k)])

\* a record that a correction padded with blanks reached: the text is stored
\* stripped, the fields the request left out are as log_scan wrote them
C9_Witness ==
    /\ reply.ok
    /\ reply.status = 200
    /\ Addressed.body.user_corrected_to = Some("banana")
    /\ Addressed.body.user_confirmed = None
    /\ Addressed.body.not_food = Some(FALSE)
    /\ Addressed.body.feedback_context = None

\* C10: whatever update_feedback calls were made on a record, its scan_log_id,
\* created_at and the capture snapshot log_scan wrote (image path, predictions,
\* OCR output, barcode, predicted product and candidates, analysis, context,
\* request metadata) are those log_scan returned.
C10_SnapshotFieldsKept ==
    \A id \in Ids :
        IsSome(logged[id]) =>
            /\ files[id].state = "doc"
            /\ \A k \in SnapshotKeys : files[id].body[k] = The(logged[id])[k]

\* a logged record whose feedback, derived fields and updated_at have changed
C10_Witness ==
    /\ IsSome(logged["id1"])
    /\ files["id1"].body.updated_at = Some(TimeOfUpdate)
    /\ files["id1"].body.user_corrected_to = Some("banana")
    /\ files["id1"].body.not_food = Some(TRUE)
    /\ IsSome(files["id1"].body.data_quality)
    /\ files["id1"].body.active_learning # The(logged["id1"]).active_learning

\* the number of condition flags that are true in a data_quality
FlagCount(dq) ==
    Cardinality({f \in DOMAIN dq.condition_flags : dq.condition_flags[f]})

\* C11: in the data_quality update_feedback left in a record, quality_bucket is
\* "low" exactly when at least 3 of the six condition flags are true or the
\* record's bad_photo is true, "medium" exactly when 1 or 2 flags are true and
\* bad_photo is not true, "high" exactly when no flag is true and bad_photo is
\* not true.
C11_QualityBucketFromFlags ==
    \A id \in Ids :
        IsSome(files[id].body.data_quality) =>
            LET dq == The(files[id].body.data_quality)
                n == FlagCount(dq)
                bad == files[id].body.bad_photo = Some(TRUE)
            IN  /\ DOMAIN dq.condition_flags =
                      {"blur", "glare", "low_light", "low_label_visibility",
                       "weak_ocr", "ambiguous_match"}
                /\ dq.quality_bucket = "low" <=> (n >= 3 \/ bad)
                /\ dq.quality_bucket = "medium" <=> (n \in {1, 2} /\ ~bad)
                /\ dq.quality_bucket = "high" <=> (n = 0 /\ ~bad)

\* a record with exactly three condition flags and no bad_photo, in the low bucket
C11_Witness ==
    /\ IsSome(files["id1"].body.data_quality)
    /\ files["id1"].body.bad_photo = Some(FALSE)
    /\ FlagCount(The(files["id1"].body.data_quality)) = 3
    /\ The(files["id1"].body.data_quality).quality_bucket = "low"

\* C12 (as claimed): the record log_scan returned holds all four derived
\* fields, each as the recomputation of update_feedback yields it for that
\* record, so an update_feedback call that provides no field would leave the
\* derived fields of that record as they are.
C12_LogScanDerivesAllFour ==
    \A id \in Ids :
        IsSome(logged[id]) =>
            LET record == The(logged[id])
            IN  /\ \A k \in DerivedKeys : IsSome(record[k])
                /\ DerivedOf(record) = DerivedOf(Rederive(record))
                /\ DerivedOf(UpdatedRecord(record, NoFeedback)) = DerivedOf(record)

\* the failure tag that mirrors each condition flag
FlagTags ==
    [blur |-> "motion_or_focus_blur", glare |-> "specular_glare",
     low_light |-> "low_light", low_label_visibility |-> "low_label_visibility",
     weak_ocr |-> "weak_ocr", ambiguous_match |-> "close_tie"]

\* C13: in a record update_feedback wrote, the four derived fields are present
\* and agree with each other and with the record: each flag-mirror tag is in
\* failure_tags iff its condition flag is true in data_quality; the reasons
\* poor_capture_quality, hard_negative_non_food, wrong_product_match and
\* ignore_region_noise are in active_learning iff the bucket is low, resp. the
\* tag hard_negative_non_food, wrong_product_match, shelf_tag_noise is in
\* failure_tags; the feedback tags follow the feedback the record now holds;
\* and recomputing the derived fields from the record changes none of them.
C13_DerivedFieldsConsistent ==
    \A id \in Ids :
        files[id].body.updated_at = Some(TimeOfUpdate) =>
            LET r == files[id].body
                dq == The(r.data_quality)
                tags == The(r.failure_tags)
                reasons == Range(The(r.active_learning).reasons)
            IN  /\ \A k \in DerivedKeys : IsSome(r[k])
                /\ \A f \in DOMAIN FlagTags :
                      FlagTags[f] \in tags <=> dq.condition_flags[f]
                /\ "poor_capture_quality" \in reasons <=> dq.quality_bucket = "low"
                /\ "hard_negative_non_food" \in reasons <=> "hard_negative_non_food" \in tags
                /\ "wrong_product_match" \in reasons <=> "wrong_product_match" \in tags
                /\ "ignore_region_noise" \in reasons <=> "shelf_tag_noise" \in tags
                /\ "hard_negative_non_food" \in tags <=> r.not_food = Some(TRUE)
                /\ "bad_photo" \in tags <=> r.bad_photo = Some(TRUE)
                /\ DerivedOf(Rederive(r)) = DerivedOf(r)

\* a record updated with not_food false in which a correction, a low
\* bucket and a price tag in view remain
C13_Witness ==
    LET r == files["id1"].body
    IN  /\ r.updated_at = Some(TimeOfUpdate)
        /\ reply.ok
        /\ r.not_food = Some(FALSE)
        /\ IsSome(r.user_corrected_to)
        /\ "wrong_product_match" \in The(r.failure_tags)
        /\ "shelf_tag_noise" \in The(r.failure_tags)
        /\ "specular_glare" \in The(r.failure_tags)
        /\ The(r.data_quality).quality_bucket = "low"
        /\ "hard_negative_non_food" \notin Range(The(r.active_learning).reasons)

\* C21: in a record update_feedback wrote, training_priority is "high" exactly
\* when failure_tags holds hard_negative_non_food or wrong_product_match,
\* "medium" exactly when failure_tags is non-empty and holds neither, and
\* "low" exactly when failure_tags is empty.
C21_TrainingPriorityFromTags ==
    \A id \in Ids :
        files[id].body.updated_at = Some(TimeOfUpdate) =>
            LET tags == The(files[id].body.failure_tags)
                priority == The(files[id].body.training_priority)
                severe == "hard_negative_non_food" \in tags \/ "wrong_product_match" \in tags
            IN  /\ priority \in {"high", "medium", "low"}
                /\ priority = "high" <=> severe
                /\ priority = "medium" <=> (tags # {} /\ ~severe)
                /\ priority = "low" <=> tags = {}

\* an updated record of medium priority: tags, none of them a severe one
C21_Witness ==
    LET r == files["id1"].body
    IN  /\ r.updated_at = Some(TimeOfUpdate)
        /\ r.training_priority = Some("medium")
        /\ "bad_photo" \in The(r.failure_tags)
        /\ "close_tie" \in The(r.failure_tags)

\* C27: in every active_learning value a record holds, the platform part of
\* domain_key is one of ios, android, windows, mac, unknown, and the browser
\* part is one of chrome, safari, firefox, edge, unknown
C27_DomainKeyBuckets ==
    \A id \in Ids :
        IsSome(files[id].body.active_learning) =>
            LET key == The(files[id].body.active_learning).domain_key
            IN  /\ key[2] \in {"ios", "android", "windows", "mac", "unknown"}
                /\ key[3] \in {"chrome", "safari", "firefox", "edge", "unknown"}

\* the part of C27 the code keeps: the browser is one of the five buckets
C27_BrowserBuckets ==
    \A id \in Ids :
        IsSome(files[id].body.active_learning) =>
            The(files[id].body.active_learning).domain_key[3]
                \in {"chrome", "safari", "firefox", "edge", "unknown"}

\* the weight the active-learning score gives each reason
ReasonWeight ==
    [low_confidence |-> 3, candidate_disagreement |-> 3, open_set_or_unknown |-> 2,
     user_disagreed |-> 4, poor_capture_quality |-> 2, hard_negative_non_food |-> 5,
     wrong_product_match |-> 5, ignore_region_noise |-> 2]

\* C22: in every active_learning value a record holds, the reasons are among
\* the eight known ones and none is listed twice, score is the sum of the
\* weights of the listed reasons, and candidate is true exactly when reasons
\* is non-empty, which is exactly when score > 0.
C22_ActiveLearningScoreIsSumOfReasons ==
    \A id \in Ids :
        IsSome(files[id].body.active_learning) =>
            LET al == The(files[id].body.active_learning)
            IN  /\ Range(al.reasons) \subseteq DOMAIN ReasonWeight
                /\ Cardinality(Range(al.reasons)) = Len(al.reasons)
                /\ al.score = SumSeq([i \in 1..Len(al.reasons) |-> ReasonWeight[al.reasons[i]]])
                /\ al.candidate <=> al.reasons # <<>>
                /\ al.candidate <=> al.score > 0

\* a record whose active_learning lists at least five reasons, a user
\* disagreement, a hard negative and a price tag among them
C22_Witness ==
    /\ IsSome(files["id1"].body.active_learning)
    /\ Len(The(files["id1"].body.active_learning).reasons) >= 5
    /\ {"user_disagreed", "hard_negative_non_food", "ignore_region_noise"}
           \subseteq Range(The(files["id1"].body.active_learning).reasons)
    /\ The(files["id1"].body.active_learning).score >= 16
    /\ The(files["id1"].body.active_learning).candidate

\* C23 (as claimed): in the data_quality of a record, ambiguous_match is true
\* exactly when the top-match margin is present and below 0.08, the margin
\* being the topMatchMargin of the record's feedback context when that holds
\* one (0 included) and the top_match_margin of its analysis otherwise.
C23_AmbiguousMatchFromMargin ==
    \A id \in Ids :
        IsSome(files[id].body.data_quality) =>
            LET r == files[id].body
                given == Get(ContextOf(r), "topMatchMargin")
                margin == IF IsSome(given) THEN given
                          ELSE Get(AnalysisOf(r), "top_match_margin")
            IN  The(r.data_quality).condition_flags.ambiguous_match
                    <=> (IsSome(margin) /\ The(margin) < AMBIGUOUS_MARGIN)

\* C30 (as claimed): after any sequence of update_feedback calls, the
\* user_accepted_product of a record, when present, is the record's
\* user_corrected_to if that is present, and its predicted_product otherwise.
C30_AcceptedProductFollowsCorrection ==
    \A id \in Ids :
        LET r == files[id].body
        IN  IsSome(r.user_accepted_product) =>
                r.user_accepted_product =
                    (IF IsSome(r.user_corrected_to) THEN r.user_corrected_to
                     ELSE r.predicted_product)

---------------------------------------------------------------------------
(* Properties of the store under concurrent calls (StoreSpec) *)

Updates(t) == tcall[t].op = "update_feedback"

\* another thread's update_feedback on the same id provides field f
Contended(t, f) ==
    \E u \in Threads \ {t} :
        Updates(u) /\ tcall[u].id = tcall[t].id /\ f \in Provided(tcall[u].payload)

\* C6: once an update_feedback call has returned, every field it provided that
\* no concurrent update_feedback on the same id provides holds the value the
\* call stored, whatever the interleaving.
C6_ConcurrentFieldsAllLand ==
    \A t \in Threads :
        (tpc[t] = "done" /\ Updates(t) /\ tres[t].ok) =>
            \A f \in Provided(tcall[t].payload) :
                ~Contended(t, f) =>
                    files[tcall[t].id].body[f] =
                        ApplyFeedback(EmptyRecord, tcall[t].payload)[f]

\* three calls on the same id, each with another field, all returned
C6_Witness ==
    /\ \A t \in Threads :
          tpc[t] = "done" /\ Updates(t) /\ tres[t].ok /\ tcall[t].id = "id1"
    /\ \A t \in Threads : \A f \in Provided(tcall[t].payload) : ~Contended(t, f)
    /\ Cardinality(UNION {Provided(tcall[t].payload) : t \in Threads}) = Cardinality(Threads)

\* C7: a call waiting for the lock while a call on a different scan id is
\* inside it can enter at once.
C7_DistinctIdsDoNotBlock ==
    \A t \in Threads, u \in Threads :
        (tpc[t] = "locked" /\ tpc[u] = "waiting" /\ tcall[t].id # tcall[u].id)
            => LockFree(u)

\* C8: an update_feedback call on an id for which no record was logged ends
\* with the 404 SCAN_LOG_NOT_FOUND response, and an id for which no record
\* was logged has no record file.
C8_UnknownIdNotFound ==
    /\ \A t \in Threads :
          (Updates(t) /\ logged[tcall[t].id] = None) =>
              /\ tpc[t] = "done"
              /\ tres[t].status = 404
              /\ tres[t].code = "SCAN_LOG_NOT_FOUND"
              /\ ~tres[t].ok
    /\ \A id \in Ids : logged[id] = None => files[id] = MissingFile

\* a call on an id never logged was answered 404 while the store kept its one record
C8_Witness ==
    \E t \in Threads :
        /\ Updates(t) /\ tpc[t] = "done"
        /\ tcall[t].id = "id2"
        /\ tres[t].status = 404
        /\ logged["id2"] = None
        /\ files["id2"] = MissingFile
        /\ files["id1"].state = "doc"

---------------------------------------------------------------------------
(* Properties of _extract_structured_ocr_fields (ExtractSpec) *)

\* the sugar hints of the claim: the zero family (the tokens the code tests
\* for, and "diet"), the regular family, and the bare word
DietHint == <<"d", "i", "e", "t">>
SugarWord == <<"s", "u", "g", "a", "r">>

\* C25 (as claimed): sugar_free is true when the blob holds a zero, diet or
\* light hint; otherwise false when it holds a regular or classic hint or the
\* word "sugar"; otherwise unknown.
C25_SugarFreeTriState ==
    xpc = "returned" =>
        LET blob == ExtractBlob(xrows)
            zero == \E hint \in SUGAR_FREE_TOKENS \cup {DietHint} : Contains(blob, hint)
            regular == \E hint \in SUGARED_TOKENS \cup {SugarWord} : Contains(blob, hint)
        IN  xfields.sugar_free =
                (IF zero THEN Some(TRUE) ELSE IF regular THEN Some(FALSE) ELSE None)

\* the volume tokens of the model and the millilitres each stands for
VolumeTokens ==
    { [text |-> <<"1", ".", "5", " ", "l">>, ml |-> 1500],
      [text |-> <<"1", ",", "5", " ", "l">>, ml |-> 1500],
      [text |-> <<"0", ".", "5", "l">>, ml |-> 500],
      [text |-> <<"5", "0", "0", " ", "m", "l">>, ml |-> 500],
      [text |-> <<"1", "2", "5", " ", "m", "l">>, ml |-> 125] }

\* C26 (as claimed): when exactly one of the rows is a volume token, a decimal
\* number with '.' or ',' followed by l or ml, volume_ml is the number times
\* 1000 for litres and the number for millilitres, rounded.
C26_VolumeFromDecimalToken ==
    xpc = "returned" =>
        \A token \in VolumeTokens :
            (/\ \E i \in 1..Len(xrows) : xrows[i].text = token.text
             /\ Cardinality({i \in 1..Len(xrows) :
                                \E other \in VolumeTokens : xrows[i].text = other.text}) = 1)
            => xfields.volume_ml = Some(token.ml)

---------------------------------------------------------------------------
(* Properties of ProductCatalog construction (LoadSpec) *)

\* the sources the contract calls missing or unreadable: the resolved path
\* holds no file, a file that cannot be read or parsed, or no JSON array
Degraded(source) ==
    ResolvePath(source).kind \in {"absent", "unreadable", "malformed", "not_array"}

\* C24: constructing the catalog on a source that is absent, cannot be read
\* or parsed, or holds no array never raises; the catalog it yields is empty
\* and rank_candidates on it returns the empty list for every evidence
C24_DegradedSourceGivesEmptyCatalog ==
    Degraded(csource) =>
        /\ cpc # "raised"
        /\ citems = <<>>
        /\ rpc = "returned" => ranked = <<>>

\* the part of C24 the code keeps: an absent file and a JSON value that is
\* no array give an empty catalog that ranks nothing
C24_AbsentOrNotArrayGivesEmptyCatalog ==
    ResolvePath(csource).kind \in {"absent", "not_array"} =>
        /\ cpc # "raised"
        /\ citems = <<>>
        /\ rpc = "returned" => ranked = <<>>

C24_EmptyCatalogRanked ==
    /\ ResolvePath(csource).kind = "not_array"
    /\ rpc = "returned"
    /\ evidence.ocr_lines # <<>>

C24_LoadedCatalogRanked == rpc = "returned" /\ ranked # <<>>

---------------------------------------------------------------------------
(* Properties of the store on a disk that can fail (FaultSpec) *)

\* C19 (as claimed): whatever call failed while it persisted a record, the
\* file of a record log_scan returned holds a whole document of that record,
\* with its scan_log_id: the record as it was or as the call would have left it.
C19_WriteAtomicUnderFailure ==
    \A id \in Ids :
        IsSome(logged[id]) =>
            /\ files[id].state = "doc"
            /\ files[id].body.scan_log_id = Some(id)
            /\ \A k \in SnapshotKeys : files[id].body[k] = The(logged[id])[k]

\* C20: the one lock is held by exactly the thread inside a `with` block, a
\* call that has returned or raised does not hold it, and every call that has
\* started eventually returns or raises.
C20_NoDeadlock ==
    /\ [](\A t \in Threads : lock = Some(t) <=> tpc[t] = "locked")
    /\ \A t \in Threads : (tpc[t] \in {"waiting", "locked"}) ~> (tpc[t] = "done")

\* a call raised inside the lock and left the record file empty; a call on
\* the same id that entered the lock after it has returned
C20_Witness ==
    \E t \in Threads : \E u \in Threads \ {t} :
        /\ tpc[t] = "done" /\ tres[t].status = 500
        /\ tpc[u] = "done" /\ tres[u].ok
        /\ Updates(t) /\ Updates(u) /\ tcall[t].id = tcall[u].id
        /\ tcur[u].scan_log_id = None
        /\ lock = None

=============================================================================
